---- MODULE Spec2Model ----
(***************************************************************************)
(* State-machine model of tg_summary_bot: the message stores               *)
(* (src/database.py, src/vector_database.py), the OCR intake queue and its *)
(* workers, the catch-all message handler, the shutdown sequence of main() *)
(* and the per-chat command cooldowns (src/bot.py).                        *)
(***************************************************************************)
EXTENDS Integers, Sequences, FiniteSets, Bags, TLC

\* ------------------------------------------------------------------------
\* Bounds of the model
\* ------------------------------------------------------------------------
\* number of update events (text or photo) delivered while polling
MaxEvents == 2
\* number of store_message handler tasks in flight at once
MaxHandlers == 2
\* number of save calls in the store-level specification
MaxSaves == 3
\* number of photos of a burst beyond what the queue and the workers take
MaxOverflow == 1
\* number of jobs the workers take off the queue during a burst
MaxDequeues == 2
\* number of clock advances in the cooldown specification
MaxAdvances == 2
\* the largest limit a retrieval call asks for
MaxLimit == 2
\* the messages stored beyond vector_search_limit before a semantic search
MaxBeyond == 2
\* clock resolution: ticks per second (datetime has sub-second resolution)
TicksPerSec == 2

\* ------------------------------------------------------------------------
\* Program constants
\* ------------------------------------------------------------------------
\* asyncio.Queue(maxsize=100)
QueueMaxsize == 100
\* num_workers = 2
NumWorkers == 2
\* asyncio.wait_for(ocr_queue.put(...), timeout=5.0)
PutTimeoutSec == 5
\* timedelta(seconds=10)
AskCooldownSec == 10
\* timedelta(minutes=5)
SummaryCooldownMin == 5

\* Python's None where the other values are strings
None == "None"

\* an absent text (None) or an empty one: both are false in a condition
NoText == <<>>

VARIABLES
    mainPc,               \* position of main()
    uniqueIndex,          \* the unique (chat_id, message_id) index exists
    messages_collection,  \* MongoDB collection: a bag of documents
    collection,           \* ChromaDB collection: a bag of records
    ocr_queue,            \* asyncio.Queue items, head first
    unfinished_tasks,     \* asyncio.Queue._unfinished_tasks
    workers,              \* OCR worker tasks
    handlers,             \* store_message handler tasks in flight
    jobs,                 \* every OCR job created so far, with its history
    events,               \* number of updates delivered
    saves,                \* number of direct store-level save calls
    lastSave,             \* outcome of the most recent save_message call
    clock,                \* datetime.now() in ticks
    advances,             \* number of clock advances
    ask_cooldowns,        \* chat_id -> last admitted /ask time
    summary_cooldowns,    \* chat_id -> last admitted /summary time
    lastAdmit,            \* per command kind and chat: time of the last admitted request
    lastReply,            \* outcome of the most recent command
    lastSummary,          \* what the most recent /summary did after its cooldown check
    lastQuery,            \* the most recent retrieval call and what it returned
    reader,               \* ocr.reader, the global of the OCR module
    executor,             \* the threads of the OCR thread pool
    reader_inits,         \* number of easyocr.Reader(...) calls made
    init_failed,          \* an easyocr.Reader(...) call has raised
    extracts              \* number of extract_text_from_image calls submitted

storeVars == <<uniqueIndex, messages_collection, collection, lastSave>>
pipeVars == <<mainPc, ocr_queue, unfinished_tasks, workers, handlers, jobs, events>>
rateVars == <<clock, advances, ask_cooldowns, summary_cooldowns, lastAdmit, lastReply>>
queryVars == <<lastSummary, lastQuery>>
ocrVars == <<reader, executor, reader_inits, init_failed, extracts>>
vars == <<mainPc, uniqueIndex, messages_collection, collection, ocr_queue,
          unfinished_tasks, workers, handlers, jobs, events, saves, lastSave,
          clock, advances, ask_cooldowns, summary_cooldowns, lastAdmit, lastReply,
          lastSummary, lastQuery, reader, executor, reader_inits, init_failed,
          extracts>>

\* ------------------------------------------------------------------------
\* Text: a sequence of symbols; a tag such as "[Image OCR]" is one symbol
\* ------------------------------------------------------------------------
IsSpace(ch) == ch = " "

RECURSIVE LStrip(_)
LStrip(s) == IF s # <<>> /\ IsSpace(Head(s)) THEN LStrip(Tail(s)) ELSE s

RECURSIVE RStrip(_)
RStrip(s) ==
    IF s # <<>> /\ IsSpace(s[Len(s)]) THEN RStrip(SubSeq(s, 1, Len(s) - 1)) ELSE s

\* str.strip()
Strip(s) == RStrip(LStrip(s))

\* f"[Image OCR] {extracted_text}"
OcrText(extracted) == <<"[Image OCR]", " ">> \o extracted

\* f"[Image Caption] {message.caption}"
CaptionText(caption) == <<"[Image Caption]", " ">> \o caption

\* TelegramMessage(id, text, sender, date, chat_id)
TelegramMessage(id, text, sender, date, chat_id) ==
    [id |-> id, text |-> text, sender |-> sender, date |-> date, chat_id |-> chat_id]

\* ------------------------------------------------------------------------
\* MessageDatabase (MongoDB), src/database.py
\* ------------------------------------------------------------------------
\* a document with the given key is in the collection
MongoHasKey(coll, chat_id, message_id) ==
    \E d \in BagToSet(coll) : d.chat_id = chat_id /\ d.message_id = message_id

\* the document save_message builds from a TelegramMessage
MongoDocument(message) ==
    [message_id |-> message.id, chat_id |-> message.chat_id, text |-> message.text,
     sender |-> message.sender, date |-> message.date]

\* a mutant of InsertOne: the (chat_id, message_id) index is not unique
InsertOneNoUnique(coll, unique, doc) ==
    [coll |-> coll (+) SetToBag({doc}), error |-> None]

\* a mutant of InsertOne: the insert replaces the document that has the key
InsertOneReplace(coll, unique, doc) ==
    IF unique /\ MongoHasKey(coll, doc.chat_id, doc.message_id)
    THEN [coll |-> SetToBag({d \in BagToSet(coll) :
                                 d.chat_id # doc.chat_id \/ d.message_id # doc.message_id}
                             \cup {doc}),
          error |-> None]
    ELSE [coll |-> coll (+) SetToBag({doc}), error |-> None]

\* messages_collection.insert_one(doc) under the indexes of setup_indexes:
\* a unique index rejects a second document with the same key
InsertOne(coll, unique, doc) ==
    IF unique /\ MongoHasKey(coll, doc.chat_id, doc.message_id)
    THEN [coll |-> coll, error |-> "duplicate key error"]
    ELSE [coll |-> coll (+) SetToBag({doc}), error |-> None]

\* MessageDatabase.save_message: insert, swallow every exception, print the
\* ones that are not duplicate-key errors
MongoSaveMessage(coll, unique, message) ==
    LET r == InsertOne(coll, unique, MongoDocument(message))
    IN  [coll |-> r.coll,
         raised |-> FALSE,
         printed |-> r.error # None /\ r.error # "duplicate key error"]

\* ------------------------------------------------------------------------
\* VectorDatabase (ChromaDB), src/vector_database.py
\* ------------------------------------------------------------------------
\* _create_document_id: f"{chat_id}_{id}", one id per pair of integers
CreateDocumentId(message) == <<message.chat_id, message.id>>

\* _create_metadata
CreateMetadata(message) ==
    [message_id |-> message.id, chat_id |-> message.chat_id,
     sender |-> message.sender, date |-> message.date]

\* collection.get(ids=[doc_id])['ids']
ChromaGetIds(coll, doc_id) == {r.id : r \in {x \in BagToSet(coll) : x.id = doc_id}}

\* collection.add: ChromaDB keeps one record per id, an add of a known id
\* stores nothing
ChromaAdd(coll, rec) ==
    IF ChromaGetIds(coll, rec.id) # {} THEN coll ELSE coll (+) SetToBag({rec})

\* VectorDatabase.save_message; getFails: the existence check raised, which
\* the code takes as "not stored yet"
VectorSaveMessage(coll, message, getFails) ==
    IF Strip(message.text) = <<>>
    THEN [coll |-> coll, raised |-> FALSE]
    ELSE LET doc_id == CreateDocumentId(message)
         IN  IF ~getFails /\ ChromaGetIds(coll, doc_id) # {}
             THEN [coll |-> coll, raised |-> FALSE]
             ELSE [coll |-> ChromaAdd(coll, [id |-> doc_id, document |-> message.text,
                                             metadata |-> CreateMetadata(message)]),
                   raised |-> FALSE]

\* what lastSave records of a save_message call
SaveOutcome(store, message, existed, raised) ==
    [store |-> store, message |-> message, existed |-> existed, raised |-> raised]

NoSave == [store |-> None]

\* ------------------------------------------------------------------------
\* Updates delivered by the chat transport
\* ------------------------------------------------------------------------
ChatIds == {1, 2}
MessageIds == {1, 2}
PhotoIds == {1}

\* a text message
TextUpdate(chat_id, message_id, text, from_user) ==
    [kind |-> "text", chat_id |-> chat_id, message_id |-> message_id, text |-> text,
     caption |-> NoText, image |-> None, from_user |-> from_user, date |-> message_id]

\* a photo message, with or without caption
PhotoUpdate(chat_id, message_id, caption, image, from_user) ==
    [kind |-> "photo", chat_id |-> chat_id, message_id |-> message_id, text |-> NoText,
     caption |-> caption, image |-> image, from_user |-> from_user, date |-> message_id]

\* the updates of the pipeline specification: from_user is None on a post
\* that has no sender
TextUpdates ==
    {TextUpdate(c, i, <<"a">>, u) : c \in {1}, i \in MessageIds, u \in {"u", None}}

PhotoUpdates ==
    {PhotoUpdate(c, i, cap, img, u) :
        c \in {1}, i \in PhotoIds, cap \in {NoText, <<"c">>},
        img \in {"words", "blank"}, u \in {"u", None}}

\* the n-th photo of a burst of photos in one chat: fresh message ids, the
\* photos that arrive once the queue can be full may carry a caption
BurstUpdates(n) ==
    {PhotoUpdate(1, n, cap, "words", "u") :
        cap \in IF n <= QueueMaxsize THEN {NoText} ELSE {NoText, <<"c">>}}

\* ------------------------------------------------------------------------
\* OCR (src/ocr.py) as the workers see it: text or None
\* ------------------------------------------------------------------------
ExtractTextFromImage(image) == IF image = "words" THEN <<"w">> ELSE NoText

\* ------------------------------------------------------------------------
\* Jobs, queue, workers, handlers
\* ------------------------------------------------------------------------
\* message.from_user.username or message.from_user.first_name or "Unknown":
\* an AttributeError when from_user is None
SenderRaises(update) == update.from_user = None

NewJob(update, status) ==
    [update |-> update, status |-> status, existed |-> FALSE]

\* statuses a finished job can have
TerminalStatus == {"committed", "discarded_empty", "discarded_error"}

\* a mutant of QueueFull: the queue takes one item more than maxsize
QueueFullLate(q) == Len(q) > QueueMaxsize

\* asyncio.Queue.full()
QueueFull(q) == Len(q) >= QueueMaxsize

\* erred: the worker has caught a per-job error
NewWorker == [pc |-> "idle", job |-> 0, cancel |-> FALSE, erred |-> FALSE]

AllWorkersDone == \A w \in DOMAIN workers : workers[w].pc = "done"

\* a mutant of AfterPut: the handler ends with the enqueue attempt
AfterPutEnds(update, job) == <<>>

\* the handler continues after the enqueue attempt: the caption save, if
\* the photo has a caption (it raises when the message has no sender)
AfterPut(update, job) ==
    IF update.caption # NoText /\ ~SenderRaises(update)
    THEN <<[update |-> update, pc |-> "caption", job |-> job, waited |-> 0]>>
    ELSE <<>>

RemoveAt(seq, h) == SubSeq(seq, 1, h - 1) \o SubSeq(seq, h + 1, Len(seq))

ReplaceAt(seq, h, new) == SubSeq(seq, 1, h - 1) \o new \o SubSeq(seq, h + 1, Len(seq))

\* Queue.task_done() sets the event join() waits on when the count is zero
TaskDoneWakes(pc, unfinished) ==
    IF pc = "join" /\ unfinished = 0 THEN "close" ELSE pc

\* a mutant of Running: the event loop runs nothing while every worker is
\* in an OCR call
RunningOffOcr ==
    /\ mainPc \notin {"start", "returned"}
    /\ \E w \in DOMAIN workers : workers[w].pc # "ocr"

\* the event loop is running: main() has started and has not returned
Running == mainPc \notin {"start", "returned"}

\* ------------------------------------------------------------------------
\* main(): start-up and shutdown, src/bot.py
\* ------------------------------------------------------------------------
\* setup_indexes(), then one task per OCR worker, then polling
MainStart ==
    /\ mainPc = "start"
    /\ uniqueIndex' = TRUE
    /\ workers' = [w \in 1..NumWorkers |-> NewWorker]
    /\ mainPc' = "polling"
    /\ UNCHANGED <<messages_collection, collection, ocr_queue, unfinished_tasks,
                   handlers, jobs, events, saves, lastSave>>
    /\ UNCHANGED rateVars
    /\ UNCHANGED queryVars
    /\ UNCHANGED ocrVars

\* polling ends; finally: worker.cancel() for every worker, await gather
MainShutdown ==
    /\ mainPc = "polling"
    /\ workers' = [w \in DOMAIN workers |-> [workers[w] EXCEPT !.cancel = TRUE]]
    /\ mainPc' = "gather"
    /\ UNCHANGED <<ocr_queue, unfinished_tasks, handlers, jobs, events, saves>>
    /\ UNCHANGED storeVars
    /\ UNCHANGED rateVars
    /\ UNCHANGED queryVars
    /\ UNCHANGED ocrVars

\* gather returned; if not ocr_queue.empty(): await ocr_queue.join()
MainGathered ==
    /\ mainPc = "gather"
    /\ AllWorkersDone
    /\ mainPc' = IF ocr_queue = <<>> \/ unfinished_tasks = 0 THEN "close" ELSE "join"
    /\ UNCHANGED <<ocr_queue, unfinished_tasks, workers, handlers, jobs, events, saves>>
    /\ UNCHANGED storeVars
    /\ UNCHANGED rateVars
    /\ UNCHANGED queryVars
    /\ UNCHANGED ocrVars

\* executor.shutdown(wait=True), db.close(), bot.session.close()
MainClose ==
    /\ mainPc = "close"
    /\ mainPc' = "returned"
    /\ UNCHANGED <<ocr_queue, unfinished_tasks, workers, handlers, jobs, events, saves>>
    /\ UNCHANGED storeVars
    /\ UNCHANGED rateVars
    /\ UNCHANGED queryVars
    /\ UNCHANGED ocrVars

\* ------------------------------------------------------------------------
\* store_message, src/bot.py
\* ------------------------------------------------------------------------
\* a text message arrives: the handler builds the TelegramMessage (which
\* raises when the message has no sender) and awaits save_message
TextArrive(u) ==
    /\ mainPc = "polling"
    /\ Len(handlers) < MaxHandlers
    /\ events' = events + 1
    /\ handlers' = IF SenderRaises(u) THEN handlers
                   ELSE Append(handlers, [update |-> u, pc |-> "text", job |-> 0,
                                          waited |-> 0])
    /\ UNCHANGED <<mainPc, ocr_queue, unfinished_tasks, workers, jobs, saves>>
    /\ UNCHANGED storeVars
    /\ UNCHANGED rateVars
    /\ UNCHANGED queryVars
    /\ UNCHANGED ocrVars

\* the save of a text message
TextSave(h) ==
    /\ Running
    /\ h \in DOMAIN handlers
    /\ handlers[h].pc = "text"
    /\ LET u == handlers[h].update
           m == TelegramMessage(u.message_id, u.text, u.from_user, u.date, u.chat_id)
           r == MongoSaveMessage(messages_collection, uniqueIndex, m)
       IN  /\ messages_collection' = r.coll
           /\ lastSave' = SaveOutcome("mongo", m,
                              MongoHasKey(messages_collection, m.chat_id, m.id), r.raised)
    /\ handlers' = RemoveAt(handlers, h)
    /\ UNCHANGED <<mainPc, ocr_queue, unfinished_tasks, workers, jobs, events, saves,
                   uniqueIndex, collection>>
    /\ UNCHANGED rateVars
    /\ UNCHANGED queryVars
    /\ UNCHANGED ocrVars

\* a photo message arrives: download, then put with a timeout; the put
\* returns at once when the queue has room
PhotoArrive(u) ==
    /\ mainPc = "polling"
    /\ Len(handlers) < MaxHandlers
    /\ events' = events + 1
    /\ LET j == Len(jobs) + 1
       IN  IF QueueFull(ocr_queue)
           THEN /\ jobs' = Append(jobs, NewJob(u, "put_wait"))
                /\ handlers' = Append(handlers, [update |-> u, pc |-> "put_wait",
                                                 job |-> j, waited |-> 0])
                /\ UNCHANGED <<ocr_queue, unfinished_tasks>>
           ELSE /\ jobs' = Append(jobs, NewJob(u, "enqueued"))
                /\ ocr_queue' = Append(ocr_queue, j)
                /\ unfinished_tasks' = unfinished_tasks + 1
                /\ handlers' = handlers \o AfterPut(u, j)
    /\ UNCHANGED <<mainPc, workers, saves>>
    /\ UNCHANGED storeVars
    /\ UNCHANGED rateVars
    /\ UNCHANGED queryVars
    /\ UNCHANGED ocrVars

\* a blocked put gets its slot
PutWake(h) ==
    /\ Running
    /\ h \in DOMAIN handlers
    /\ handlers[h].pc = "put_wait"
    /\ ~QueueFull(ocr_queue)
    /\ LET j == handlers[h].job
       IN  /\ jobs' = [jobs EXCEPT ![j].status = "enqueued"]
           /\ ocr_queue' = Append(ocr_queue, j)
           /\ unfinished_tasks' = unfinished_tasks + 1
           /\ handlers' = ReplaceAt(handlers, h, AfterPut(handlers[h].update, j))
    /\ UNCHANGED <<mainPc, workers, events, saves>>
    /\ UNCHANGED storeVars
    /\ UNCHANGED rateVars
    /\ UNCHANGED queryVars
    /\ UNCHANGED ocrVars

\* a mutant of PutExpired: the put has no timeout
PutExpiredNever(waited) == FALSE

\* wait_for(..., timeout=5.0) expires
PutExpired(waited) == waited >= PutTimeoutSec

\* asyncio.TimeoutError: "OCR queue is full, dropping image"
PutTimeout(h) ==
    /\ Running
    /\ h \in DOMAIN handlers
    /\ handlers[h].pc = "put_wait"
    /\ QueueFull(ocr_queue)
    /\ PutExpired(handlers[h].waited)
    /\ jobs' = [jobs EXCEPT ![handlers[h].job].status = "dropped"]
    /\ handlers' = ReplaceAt(handlers, h, AfterPut(handlers[h].update, handlers[h].job))
    /\ UNCHANGED <<mainPc, ocr_queue, unfinished_tasks, workers, events, saves>>
    /\ UNCHANGED storeVars
    /\ UNCHANGED rateVars
    /\ UNCHANGED queryVars
    /\ UNCHANGED ocrVars

\* a second passes for the handlers blocked in put; none may overstay its
\* timeout
SecondPasses ==
    /\ Running
    /\ \E h \in DOMAIN handlers : handlers[h].pc = "put_wait"
    /\ \A h \in DOMAIN handlers :
          handlers[h].pc = "put_wait" => handlers[h].waited < PutTimeoutSec
    /\ handlers' = [h \in DOMAIN handlers |->
                      IF handlers[h].pc = "put_wait"
                      THEN [handlers[h] EXCEPT !.waited = @ + 1] ELSE handlers[h]]
    /\ UNCHANGED <<mainPc, ocr_queue, unfinished_tasks, workers, jobs, events, saves>>
    /\ UNCHANGED storeVars
    /\ UNCHANGED rateVars
    /\ UNCHANGED queryVars
    /\ UNCHANGED ocrVars

\* the save of a photo's caption
CaptionSave(h) ==
    /\ Running
    /\ h \in DOMAIN handlers
    /\ handlers[h].pc = "caption"
    /\ LET u == handlers[h].update
           m == TelegramMessage(u.message_id, CaptionText(u.caption), u.from_user,
                                u.date, u.chat_id)
           r == MongoSaveMessage(messages_collection, uniqueIndex, m)
       IN  /\ messages_collection' = r.coll
           /\ lastSave' = SaveOutcome("mongo", m,
                              MongoHasKey(messages_collection, m.chat_id, m.id), r.raised)
    /\ handlers' = RemoveAt(handlers, h)
    /\ UNCHANGED <<mainPc, ocr_queue, unfinished_tasks, workers, jobs, events, saves,
                   uniqueIndex, collection>>
    /\ UNCHANGED rateVars
    /\ UNCHANGED queryVars
    /\ UNCHANGED ocrVars

\* ------------------------------------------------------------------------
\* ocr_worker, src/bot.py
\* ------------------------------------------------------------------------
\* ocr_queue.get() returns a job; OCR is handed to the executor
WorkerGet(w) ==
    /\ Running
    /\ w \in DOMAIN workers
    /\ workers[w].pc = "idle"
    /\ ~workers[w].cancel
    /\ ocr_queue # <<>>
    /\ LET j == Head(ocr_queue)
       IN  /\ workers' = [workers EXCEPT ![w].pc = "ocr", ![w].job = j]
           /\ jobs' = [jobs EXCEPT ![j].status = "ocr"]
    /\ ocr_queue' = Tail(ocr_queue)
    /\ UNCHANGED <<mainPc, unfinished_tasks, handlers, events, saves>>
    /\ UNCHANGED storeVars
    /\ UNCHANGED rateVars
    /\ UNCHANGED queryVars
    /\ UNCHANGED ocrVars

\* a mutant of OcrHasText: every OCR result is taken as text
OcrHasTextAlways(extracted) == TRUE

\* if extracted_text:
OcrHasText(extracted) == extracted # NoText

\* a mutant of WorkerOnError: a per-job error ends the worker
WorkerOnErrorExit(rec) == [rec EXCEPT !.pc = "done", !.job = 0, !.erred = TRUE]

\* a mutant of WorkerOnError: the worker runs OCR on the job once more
WorkerOnErrorRetry(rec) == [rec EXCEPT !.pc = "ocr", !.erred = TRUE]

\* except Exception: log, sleep(1), continue
WorkerOnError(rec) == [rec EXCEPT !.pc = "sleep", !.job = 0, !.erred = TRUE]

\* the OCR call returns: nothing to store (task_done), or an error while
\* the message is built, or the message is built and save_message awaited
WorkerOcrDone(w) ==
    /\ Running
    /\ w \in DOMAIN workers
    /\ workers[w].pc = "ocr"
    /\ ~workers[w].cancel
    /\ LET j == workers[w].job
           u == jobs[j].update
           extracted == ExtractTextFromImage(u.image)
       IN  IF ~OcrHasText(extracted)
           THEN /\ unfinished_tasks' = unfinished_tasks - 1
                /\ mainPc' = TaskDoneWakes(mainPc, unfinished_tasks - 1)
                /\ workers' = [workers EXCEPT ![w].pc = "idle", ![w].job = 0]
                /\ jobs' = [jobs EXCEPT ![j].status = "discarded_empty"]
           ELSE IF SenderRaises(u)
           THEN /\ workers' = [workers EXCEPT ![w] = WorkerOnError(workers[w])]
                /\ jobs' = [jobs EXCEPT ![j].status = "discarded_error"]
                /\ UNCHANGED <<mainPc, unfinished_tasks>>
           ELSE /\ workers' = [workers EXCEPT ![w].pc = "save"]
                /\ jobs' = [jobs EXCEPT ![j].status = "save"]
                /\ UNCHANGED <<mainPc, unfinished_tasks>>
    /\ UNCHANGED <<ocr_queue, handlers, events, saves>>
    /\ UNCHANGED storeVars
    /\ UNCHANGED rateVars
    /\ UNCHANGED queryVars
    /\ UNCHANGED ocrVars

\* a mutant of OcrMessage: the OCR text is saved under an id of its own
OcrMessageOwnKey(u) ==
    TelegramMessage(0 - u.message_id, OcrText(ExtractTextFromImage(u.image)), u.from_user,
                    u.date, u.chat_id)

\* the message a worker saves for a job
OcrMessage(u) ==
    TelegramMessage(u.message_id, OcrText(ExtractTextFromImage(u.image)), u.from_user,
                    u.date, u.chat_id)

\* save_message returns, then ocr_queue.task_done()
WorkerSave(w) ==
    /\ Running
    /\ w \in DOMAIN workers
    /\ workers[w].pc = "save"
    /\ ~workers[w].cancel
    /\ LET j == workers[w].job
           m == OcrMessage(jobs[j].update)
           existed == MongoHasKey(messages_collection, m.chat_id, m.id)
           r == MongoSaveMessage(messages_collection, uniqueIndex, m)
       IN  /\ messages_collection' = r.coll
           /\ lastSave' = SaveOutcome("mongo", m, existed, r.raised)
           /\ jobs' = [jobs EXCEPT ![j].status = "committed", ![j].existed = existed]
    /\ unfinished_tasks' = unfinished_tasks - 1
    /\ mainPc' = TaskDoneWakes(mainPc, unfinished_tasks - 1)
    /\ workers' = [workers EXCEPT ![w].pc = "idle", ![w].job = 0]
    /\ UNCHANGED <<ocr_queue, handlers, events, saves, uniqueIndex, collection>>
    /\ UNCHANGED rateVars
    /\ UNCHANGED queryVars
    /\ UNCHANGED ocrVars

\* the pause after an error is over
WorkerWake(w) ==
    /\ Running
    /\ w \in DOMAIN workers
    /\ workers[w].pc = "sleep"
    /\ ~workers[w].cancel
    /\ workers' = [workers EXCEPT ![w].pc = "idle"]
    /\ UNCHANGED <<mainPc, ocr_queue, unfinished_tasks, handlers, jobs, events, saves>>
    /\ UNCHANGED storeVars
    /\ UNCHANGED rateVars
    /\ UNCHANGED queryVars
    /\ UNCHANGED ocrVars

\* CancelledError at the await the worker is suspended in: the loop is left,
\* with the job of that iteration where it is. An insert already handed to
\* the driver may or may not still be applied.
WorkerCancelled(w) ==
    /\ Running
    /\ w \in DOMAIN workers
    /\ workers[w].cancel
    /\ workers[w].pc # "done"
    /\ workers' = [workers EXCEPT ![w].pc = "done"]
    /\ IF workers[w].pc = "save"
       THEN \E applied \in BOOLEAN :
              LET m == OcrMessage(jobs[workers[w].job].update)
                  existed == MongoHasKey(messages_collection, m.chat_id, m.id)
                  r == MongoSaveMessage(messages_collection, uniqueIndex, m)
              IN  IF applied
                  THEN /\ messages_collection' = r.coll
                       /\ lastSave' = SaveOutcome("mongo", m, existed, r.raised)
                  ELSE UNCHANGED <<messages_collection, lastSave>>
       ELSE UNCHANGED <<messages_collection, lastSave>>
    /\ UNCHANGED <<mainPc, ocr_queue, unfinished_tasks, handlers, jobs, events, saves,
                   uniqueIndex, collection>>
    /\ UNCHANGED rateVars
    /\ UNCHANGED queryVars
    /\ UNCHANGED ocrVars

\* ------------------------------------------------------------------------
\* Direct calls of the two stores and the migration script
\* ------------------------------------------------------------------------
ApiMessages ==
    {TelegramMessage(i, t, s, d, c) :
        i \in PhotoIds, t \in {<<"a">>, <<"b">>, <<" ">>}, s \in {"u", "v"},
        d \in {1, 2}, c \in ChatIds}

\* MessageDatabase.save_message(m)
MongoSaveCall(m) ==
    /\ mainPc = "polling"
    /\ saves' = saves + 1
    /\ LET r == MongoSaveMessage(messages_collection, uniqueIndex, m)
       IN  /\ messages_collection' = r.coll
           /\ lastSave' = SaveOutcome("mongo", m,
                              MongoHasKey(messages_collection, m.chat_id, m.id), r.raised)
    /\ UNCHANGED <<uniqueIndex, collection>>
    /\ UNCHANGED pipeVars
    /\ UNCHANGED rateVars
    /\ UNCHANGED queryVars
    /\ UNCHANGED ocrVars

\* VectorDatabase.save_message(m)
VectorSaveCall(m, getFails) ==
    /\ saves' = saves + 1
    /\ LET r == VectorSaveMessage(collection, m, getFails)
       IN  /\ collection' = r.coll
           /\ lastSave' = SaveOutcome("chroma", m,
                              ChromaGetIds(collection, CreateDocumentId(m)) # {}, r.raised)
    /\ UNCHANGED <<uniqueIndex, messages_collection>>
    /\ UNCHANGED pipeVars
    /\ UNCHANGED rateVars
    /\ UNCHANGED queryVars
    /\ UNCHANGED ocrVars

\* migrate_data: one document of the MongoDB collection is saved to the
\* vector store
MigrateMessage(doc) ==
    /\ BagIn(doc, messages_collection)
    /\ saves' = saves + 1
    /\ LET m == TelegramMessage(doc.message_id, doc.text, doc.sender, doc.date, doc.chat_id)
           r == VectorSaveMessage(collection, m, FALSE)
       IN  /\ collection' = r.coll
           /\ lastSave' = SaveOutcome("chroma", m,
                              ChromaGetIds(collection, CreateDocumentId(m)) # {}, r.raised)
    /\ UNCHANGED <<uniqueIndex, messages_collection>>
    /\ UNCHANGED pipeVars
    /\ UNCHANGED rateVars
    /\ UNCHANGED queryVars
    /\ UNCHANGED ocrVars

\* ------------------------------------------------------------------------
\* Query text and regular expressions: search_messages_regex, src/database.py
\* A letter is one symbol, named after its Unicode name: "ze" is CYRILLIC
\* SMALL LETTER ZE, "ZE" its capital, "ii" the Ukrainian i, "i" CYRILLIC I,
\* "lat_p" and "lat_y" the Latin letters.
\* ------------------------------------------------------------------------
\* the letters that have a lower and an upper case form
CasePairs ==
    {<<"ze", "ZE">>, <<"tse", "TSE">>, <<"i", "I">>, <<"ii", "II">>, <<"a", "A">>,
     <<"o", "O">>, <<"ie", "IE">>, <<"en", "EN">>, <<"pe", "PE">>, <<"er", "ER">>,
     <<"u", "U">>, <<"ya", "YA">>, <<"lat_p", "LAT_P">>, <<"lat_y", "LAT_Y">>}

LowerChar(ch) ==
    IF \E p \in CasePairs : p[2] = ch THEN (CHOOSE p \in CasePairs : p[2] = ch)[1] ELSE ch

UpperChar(ch) ==
    IF \E p \in CasePairs : p[1] = ch THEN (CHOOSE p \in CasePairs : p[1] = ch)[2] ELSE ch

\* str.lower()
Lower(s) == [k \in 1..Len(s) |-> LowerChar(s[k])]

\* str.upper()
Upper(s) == [k \in 1..Len(s) |-> UpperChar(s[k])]

\* str.capitalize()
Capitalize(s) == [k \in 1..Len(s) |-> IF k = 1 THEN UpperChar(s[k]) ELSE LowerChar(s[k])]

\* str.replace(original, replacement) for a one-letter original
RECURSIVE Replace(_, _, _)
Replace(s, original, replacement) ==
    IF s = <<>> THEN <<>>
    ELSE (IF Head(s) = original THEN replacement ELSE <<Head(s)>>)
         \o Replace(Tail(s), original, replacement)

\* the substitutions dict of create_fuzzy_patterns, in insertion order
Substitutions ==
    << <<"ze",  <<"[", "ze", "tse", "]">> >>,
       <<"tse", <<"[", "tse", "ze", "]">> >>,
       <<"i",   <<"[", "i", "ii", "]">> >>,
       <<"ii",  <<"[", "ii", "i", "]">> >>,
       <<"a",   <<"[", "a", "o", "]">> >>,
       <<"o",   <<"[", "o", "a", "]">> >>,
       <<"ie",  <<"[", "ie", "ie", "]">> >>,
       <<"en",  <<"[", "en", "pe", "]">> >>,
       <<"pe",  <<"[", "pe", "en", "]">> >>,
       <<"er",  <<"[", "er", "lat_p", "]">> >>,
       <<"u",   <<"[", "u", "lat_y", "]">> >> >>

\* for original, replacement in substitutions.items():
\*     fuzzy_text = fuzzy_text.replace(original, replacement)
RECURSIVE ApplySubstitutions(_, _)
ApplySubstitutions(fuzzy_text, k) ==
    IF k > Len(Substitutions) THEN fuzzy_text
    ELSE ApplySubstitutions(
             Replace(fuzzy_text, Substitutions[k][1], Substitutions[k][2]), k + 1)

\* the fuzzy pattern of create_fuzzy_patterns
FuzzyText(text) == ApplySubstitutions(Lower(text), 1)

\* len(text) > 4 in create_fuzzy_patterns
CoreMinLen == 4

\* create_fuzzy_patterns(text)
CreateFuzzyPatterns(text) ==
    <<text, Lower(text), Upper(text), Capitalize(text), FuzzyText(text)>>
    \o (IF Len(text) > CoreMinLen
        THEN << <<".", "*">> \o Lower(SubSeq(text, 2, Len(text) - 1)) \o <<".", "*">> >>
        ELSE <<>>)

\* unique_patterns: duplicates removed, order kept
RECURSIVE UniquePatterns(_, _)
UniquePatterns(patterns, unique) ==
    IF patterns = <<>> THEN unique
    ELSE UniquePatterns(Tail(patterns),
             IF \E k \in 1..Len(unique) : unique[k] = Head(patterns)
             THEN unique ELSE Append(unique, Head(patterns)))

\* the position of the "]" that closes the character class opened at i, or
\* 0: a "]" right after the "[" is a member, and so is every "[" inside
ClassEnd(p, i) ==
    LET ends == {j \in (i + 2)..Len(p) : p[j] = "]"}
    IN  IF ends = {} THEN 0 ELSE CHOOSE j \in ends : \A k \in ends : j <= k

\* the pattern is one the regex engine compiles: every class is closed, a
\* "*" follows an item, no group is left open
RECURSIVE RegexValid(_, _)
RegexValid(p, i) ==
    IF i > Len(p) THEN TRUE
    ELSE IF p[i] \in {"*", "("} THEN FALSE
    ELSE LET next == IF p[i] = "[" THEN ClassEnd(p, i) + 1 ELSE i + 1
         IN  /\ next # 1
             /\ RegexValid(p, IF next <= Len(p) /\ p[next] = "*" THEN next + 1 ELSE next)

\* the items of a compiled pattern: a character class or a single
\* character, "." for any character, each with or without "*"
RECURSIVE RegexItems(_, _)
RegexItems(p, i) ==
    IF i > Len(p) THEN <<>>
    ELSE LET next == IF p[i] = "[" THEN ClassEnd(p, i) + 1 ELSE i + 1
             chars == IF p[i] = "[" THEN {p[k] : k \in (i + 1)..(next - 2)} ELSE {p[i]}
             star == next <= Len(p) /\ p[next] = "*"
         IN  <<[any |-> p[i] = ".", chars |-> chars, star |-> star]>>
             \o RegexItems(p, IF star THEN next + 1 ELSE next)

\* one character against one item, "$options": "i"
ItemMatches(item, ch) ==
    item.any \/ LowerChar(ch) \in {LowerChar(c) : c \in item.chars}

\* the items from k on match the text from position j on
RECURSIVE MatchHere(_, _, _, _)
MatchHere(items, k, text, j) ==
    IF k > Len(items) THEN TRUE
    ELSE IF items[k].star
    THEN \/ MatchHere(items, k + 1, text, j)
         \/ /\ j <= Len(text)
            /\ ItemMatches(items[k], text[j])
            /\ MatchHere(items, k, text, j + 1)
    ELSE /\ j <= Len(text)
         /\ ItemMatches(items[k], text[j])
         /\ MatchHere(items, k + 1, text, j + 1)

\* {"$regex": pattern, "$options": "i"}: the pattern matches somewhere in
\* the text
RegexSearch(pattern, text) ==
    \E j \in 1..(Len(text) + 1) : MatchHere(RegexItems(pattern, 1), 1, text, j)

\* ------------------------------------------------------------------------
\* Retrieval from MongoDB: get_recent_messages, search_messages,
\* search_messages_regex, src/database.py
\* ------------------------------------------------------------------------
Min(a, b) == IF a < b THEN a ELSE b

\* a mutant of Reversed: the list is returned as it is, newest first
ReversedNot(s) == s

\* list(reversed(messages))
Reversed(s) == [k \in 1..Len(s) |-> s[Len(s) + 1 - k]]

\* the orders in which a cursor or a get can deliver the members of a bag
BagSeqs(bag) ==
    LET n == BagCardinality(bag)
    IN  {s \in [1..n -> BagToSet(bag)] :
            \A d \in BagToSet(bag) : Cardinality({k \in 1..n : s[k] = d}) = CopiesIn(d, bag)}

\* the members of a bag that a filter keeps, with their copies
BagFilter(bag, kept) ==
    [d \in BagToSet(bag) \cap kept |-> CopiesIn(d, bag)]

\* sort("date", -1), and sort(key=lambda x: x.date, reverse=True): newest
\* first, equal dates in any order
NewestFirst(s) == \A i, j \in 1..Len(s) : i < j => s[i].date >= s[j].date

\* cursor.limit(limit): 0 is no limit, a negative limit is its absolute value
CursorLimit(s, limit) ==
    IF limit = 0 THEN s
    ELSE SubSeq(s, 1, Min(IF limit < 0 THEN 0 - limit ELSE limit, Len(s)))

\* find(filter).sort("date", -1).limit(limit): the results the cursor can give
FindNewest(found, limit) ==
    {CursorLimit(s, limit) : s \in {x \in BagSeqs(found) : NewestFirst(x)}}

\* TelegramMessage(id=doc["message_id"], text=doc["text"], ...)
DocMessage(doc) ==
    TelegramMessage(doc.message_id, doc.text, doc.sender, doc.date, doc.chat_id)

\* the messages appended while a cursor is read
DocMessages(docs) == [k \in 1..Len(docs) |-> DocMessage(docs[k])]

\* MessageDatabase.get_recent_messages: the results it can return
MongoGetRecentMessages(coll, chat_id, limit) ==
    {Reversed(DocMessages(docs)) :
        docs \in FindNewest(BagFilter(coll, {d \in BagToSet(coll) : d.chat_id = chat_id}), limit)}

\* the words of a text, split at spaces
RECURSIVE Words(_, _)
Words(s, word) ==
    IF s = <<>> THEN (IF word = <<>> THEN {} ELSE {word})
    ELSE IF IsSpace(Head(s))
    THEN (IF word = <<>> THEN {} ELSE {word}) \cup Words(Tail(s), <<>>)
    ELSE Words(Tail(s), Append(word, LowerChar(Head(s))))

\* {"$text": {"$search": query}} on the text index: a document matches when
\* it has one of the words of the query, whatever the case (stemming and
\* stop words are left out)
TextMatches(query, text) == Words(query, <<>>) \cap Words(text, <<>>) # {}

\* what a retrieval call did: the messages returned, or an exception
\* raised to the caller, and the searches of the store made on the way
Outcome(messages, raised, calls) ==
    [messages |-> messages, raised |-> raised, calls |-> calls]

\* the outcome of one search of the store, with the record of that search
\* and of what it gave
Searched(op, query, limit, messages, raised) ==
    Outcome(messages, raised,
            <<[op |-> op, query |-> query, limit |-> limit,
               messages |-> messages, raised |-> raised]>>)

\* a mutant of PatternStops: the loop goes on after a pattern had results
PatternStopsNever(pattern_messages) == FALSE

\* if pattern_messages: messages.extend(pattern_messages); break
PatternStops(pattern_messages) == pattern_messages # <<>>

\* for pattern in unique_patterns: the loop of search_messages_regex from
\* pattern k on; a pattern the regex engine rejects makes find raise
RECURSIVE TryPatterns(_, _, _, _, _, _)
TryPatterns(coll, chat_id, patterns, k, limit, messages) ==
    IF k > Len(patterns) THEN {[messages |-> messages, raised |-> FALSE]}
    ELSE IF ~RegexValid(patterns[k], 1) THEN {[messages |-> <<>>, raised |-> TRUE]}
    ELSE LET found == BagFilter(coll, {d \in BagToSet(coll) :
                                          /\ d.chat_id = chat_id
                                          /\ RegexSearch(patterns[k], d.text)})
         IN  UNION {IF PatternStops(DocMessages(docs))
                    THEN {[messages |-> messages \o DocMessages(docs), raised |-> FALSE]}
                    ELSE TryPatterns(coll, chat_id, patterns, k + 1, limit,
                                     messages \o DocMessages(docs)) :
                    docs \in FindNewest(found, limit)}

\* MessageDatabase.search_messages_regex: the outcomes it can have
SearchMessagesRegex(coll, chat_id, query, limit) ==
    {Searched("regex", query, limit, r.messages, r.raised) :
        r \in TryPatterns(coll, chat_id, UniquePatterns(CreateFuzzyPatterns(query), <<>>),
                          1, limit, <<>>)}

\* the text search of MessageDatabase.search_messages: matches in the order
\* of their score, which the model leaves open; textFails: the query raised
TextSearch(coll, chat_id, query, limit, textFails) ==
    IF textFails THEN {Searched("text", query, limit, <<>>, TRUE)}
    ELSE {Searched("text", query, limit, DocMessages(CursorLimit(docs, limit)), FALSE) :
             docs \in BagSeqs(BagFilter(coll, {d \in BagToSet(coll) :
                                                 /\ d.chat_id = chat_id
                                                 /\ TextMatches(query, d.text)}))}

\* a mutant of OrElse: the second call is made whatever the first returned
OrElseAlways(first, second) ==
    UNION {IF r.raised THEN {r}
           ELSE {Outcome(f.messages, f.raised, r.calls \o f.calls) : f \in second} :
           r \in first}

\* messages = await first; if not messages: messages = await second. An
\* exception of the first call goes up, a result that is not empty is
\* returned, an empty one is replaced by the outcome of the second call
OrElse(first, second) ==
    UNION {IF r.raised \/ r.messages # <<>> THEN {r}
           ELSE {Outcome(f.messages, f.raised, r.calls \o f.calls) : f \in second} :
           r \in first}

\* MessageDatabase.search_messages
MongoSearchMessages(coll, chat_id, query, limit, textFails) ==
    OrElse(TextSearch(coll, chat_id, query, limit, textFails),
           SearchMessagesRegex(coll, chat_id, query, limit))

\* config.max_messages_to_fetch
MaxMessagesToFetch == 10

\* limit = limit or self.config.max_messages_to_fetch: None is 0 here, and
\* both are falsy
EffectiveLimit(limit) == IF limit = 0 THEN MaxMessagesToFetch ELSE limit

\* TelegramSearchClient.search_messages
ClientSearchMessages(coll, chat_id, query, limit, textFails) ==
    OrElse(MongoSearchMessages(coll, chat_id, query, EffectiveLimit(limit), textFails),
           SearchMessagesRegex(coll, chat_id, query, EffectiveLimit(limit)))

\* ------------------------------------------------------------------------
\* Retrieval from ChromaDB: search_messages, get_recent_messages,
\* src/vector_database.py
\* ------------------------------------------------------------------------
\* config.vector_search_limit
VectorSearchLimit == 10

\* days_back: int = 7
DaysBack == 7

\* the TelegramMessage built from a record of a query or get result
RecordMessage(rec) ==
    TelegramMessage(rec.metadata.message_id, rec.document, rec.metadata.sender,
                    rec.metadata.date, rec.metadata.chat_id)

RecordMessages(recs) == [k \in 1..Len(recs) |-> RecordMessage(recs[k])]

\* a mutant of WhereChat: the where clause does not restrict the chat
WhereChatAny(coll, chat_id) == coll

\* where={"chat_id": chat_id}
WhereChat(coll, chat_id) == BagFilter(coll, {r \in BagToSet(coll) : r.metadata.chat_id = chat_id})

\* a mutant of NResults: the limit asked for is not looked at
NResultsConfigured(limit) == VectorSearchLimit

\* n_results=min(limit, self.config.vector_search_limit)
NResults(limit) == Min(limit, VectorSearchLimit)

\* records listed by message id
RECURSIVE ById(_)
ById(recs) ==
    IF recs = {} THEN <<>>
    ELSE LET first == CHOOSE r \in recs :
                          \A x \in recs : r.metadata.message_id <= x.metadata.message_id
         IN  <<first>> \o ById(recs \ {first})

\* the results that hold n records of a bag of distinct records: which
\* records are the nearest is left open, and they are listed by message id,
\* the distances are not computed
Neighbours(bag, n) ==
    {ById(recs) : recs \in {x \in SUBSET BagToSet(bag) : Cardinality(x) = n}}

\* collection.query(query_embeddings, n_results, where): the n_results
\* records of the chat nearest to the query, fewer if the chat has fewer;
\* which records are nearest is left open, the embedding is not computed.
\* n_results < 1 is an error of the backend
ChromaQuery(coll, chat_id, n_results) ==
    LET found == WhereChat(coll, chat_id)
    IN  Neighbours(found, Min(n_results, BagCardinality(found)))

\* a mutant of VectorSearchMessages: only the records whose document is the
\* query text are neighbours
VectorSearchMessagesExact(coll, chat_id, query, limit, fails) ==
    IF fails \/ NResults(limit) < 1
    THEN {Outcome(<<>>, FALSE, <<>>)}
    ELSE {Outcome(RecordMessages(recs), FALSE, <<>>) :
             recs \in ChromaQuery(BagFilter(coll, {r \in BagToSet(coll) : r.document = query}),
                                  chat_id, NResults(limit))}

\* VectorDatabase.search_messages; fails: encode or query raised
VectorSearchMessages(coll, chat_id, query, limit, fails) ==
    IF fails \/ NResults(limit) < 1
    THEN {Outcome(<<>>, FALSE, <<>>)}
    ELSE {Outcome(RecordMessages(recs), FALSE, <<>>) :
             recs \in ChromaQuery(coll, chat_id, NResults(limit))}

\* a mutant of SortedNewestFirst: the sort is ascending
SortedOldestFirst(bag) ==
    {m \in {RecordMessages(recs) : recs \in BagSeqs(bag)} : NewestFirst(Reversed(m))}

\* messages.sort(key=lambda x: x.date, reverse=True) on the messages built
\* from the result of a get, whose order the backend chooses
SortedNewestFirst(bag) ==
    {m \in {RecordMessages(recs) : recs \in BagSeqs(bag)} : NewestFirst(m)}

\* a mutant of NeedsMore: the result of the time filter is always enough
NeedsMoreNever(messages, limit) == FALSE

\* if len(messages) < limit:
NeedsMore(messages, limit) == Len(messages) < limit

\* messages[:limit]
Slice(s, limit) ==
    IF limit >= 0 THEN SubSeq(s, 1, Min(limit, Len(s)))
    ELSE SubSeq(s, 1, Len(s) + limit)

\* the try block of get_recent_messages: the time filter first, then every
\* message of the chat when the filter gave fewer than limit
RecentInWindow(coll, chat_id, limit, threshold) ==
    LET inWindow == BagFilter(WhereChat(coll, chat_id),
                              {r \in BagToSet(coll) : r.metadata.date >= threshold})
    IN  UNION {IF NeedsMore(messages, limit)
               THEN {Reversed(Slice(all_messages, limit)) :
                        all_messages \in SortedNewestFirst(WhereChat(coll, chat_id))}
               ELSE {Reversed(Slice(messages, limit))} :
               messages \in SortedNewestFirst(inWindow)}

\* a mutant of RecentSimple: the scan is returned whole
RecentSimpleWhole(coll, chat_id, limit) ==
    {Reversed(messages) : messages \in SortedNewestFirst(WhereChat(coll, chat_id))}

\* the except block of get_recent_messages: every message of the chat
RecentSimple(coll, chat_id, limit) ==
    {Reversed(Slice(messages, limit)) :
        messages \in SortedNewestFirst(WhereChat(coll, chat_id))}

\* VectorDatabase.get_recent_messages at time now; firstFails: a get of the
\* try block raised, secondFails: the get of the except block raised
VectorGetRecentMessages(coll, chat_id, limit, days_back, now, firstFails, secondFails) ==
    IF ~firstFails THEN RecentInWindow(coll, chat_id, limit, now - days_back)
    ELSE IF ~secondFails THEN RecentSimple(coll, chat_id, limit)
    ELSE {<<>>}

\* ------------------------------------------------------------------------
\* Command cooldowns: cmd_ask and cmd_summary, src/bot.py
\* ------------------------------------------------------------------------
\* timedelta(seconds=10) in ticks
AskCooldown == AskCooldownSec * TicksPerSec

\* timedelta(minutes=5) in ticks
SummaryCooldown == SummaryCooldownMin * 60 * TicksPerSec

\* timedelta(...) - (current_time - last)
CooldownRemaining(cooldown, now, last) == cooldown - (now - last)

\* a mutant of OnCooldown: no request is on cooldown
OnCooldownNever(remaining) == FALSE

\* a mutant of OnCooldown: the last tick of the window is not covered
OnCooldownShort(remaining) == remaining > 1

\* if cooldown_remaining.total_seconds() > 0:
OnCooldown(remaining) == remaining > 0

\* int(cooldown_remaining.total_seconds())
AskSecondsRemaining(remaining) == remaining \div TicksPerSec

\* int(cooldown_remaining.total_seconds() / 60)
SummaryMinutesRemaining(remaining) == remaining \div (60 * TicksPerSec)

\* int(cooldown_remaining.total_seconds() % 60)
SummarySecondsRemaining(remaining) == (remaining % (60 * TicksPerSec)) \div TicksPerSec

\* the wait a rejected /summary is told, in seconds
SummaryWaitShown(remaining) ==
    SummaryMinutesRemaining(remaining) * 60 + SummarySecondsRemaining(remaining)

\* what follows "/ask" in the message text
AskRests == {<<" ">>, <<" ", "q">>}

\* db.get_recent_messages(chat_id, limit=300)
RecentLimit == 300

\* if len(recent_messages) < 2:
MinSummaryMessages == 2

\* a mutant of TooFew: one message is enough
TooFewNever(recent_messages) == Len(recent_messages) < 1

\* if len(recent_messages) < 2
TooFew(recent_messages) == Len(recent_messages) < MinSummaryMessages

\* cmd_summary after the cooldown check: what the user is told and whether
\* summary_agent.run is called
SummaryOf(chat_id, recent_messages) ==
    [chat_id |-> chat_id,
     found |-> Len(recent_messages),
     outcome |-> IF recent_messages = <<>> THEN "no messages found"
                 ELSE IF TooFew(recent_messages) THEN "only n messages found"
                 ELSE "summary",
     summarizer_calls |-> IF recent_messages = <<>> \/ TooFew(recent_messages) THEN 0 ELSE 1,
     raised |-> FALSE]

\* the steps by which the clock advances between two commands
Delays == {1, AskCooldown - 1, SummaryCooldown - 1}

\* a mutant of DictSet: the assignment overwrites every entry of the dict
DictSetEvery(d, k, v) == [x \in DOMAIN d \cup {k} |-> v]

\* d[k] = v on a dict
DictSet(d, k, v) == [x \in DOMAIN d \cup {k} |-> IF x = k THEN v ELSE d[x]]

\* the values a dict has for a key: none or one
DictGet(d, k) == IF k \in DOMAIN d THEN {d[k]} ELSE {}

Reply(kind, chat_id, outcome, wait, prev) ==
    [kind |-> kind, chat_id |-> chat_id, at |-> clock, outcome |-> outcome,
     wait |-> wait, prevAdmit |-> prev]

NoReply == [kind |-> None]

\* what an admitted /ask does after the cooldown entry is set: it answers,
\* finds no messages, or an await of the try block raises and the except
\* block reports the error; the search and the agents decide which
AskAfter == {"answered", "no messages found", "error"}

\* the reply of an admitted request, with what the handler did afterwards
Admitted(kind, chat_id, prev, after) ==
    [after |-> after] @@ Reply(kind, chat_id, "admitted", 0, prev)

\* time passes
Advance(d) ==
    /\ mainPc = "polling"
    /\ advances < MaxAdvances
    /\ advances' = advances + 1
    /\ clock' = clock + d
    /\ UNCHANGED <<ask_cooldowns, summary_cooldowns, lastAdmit, lastReply, saves>>
    /\ UNCHANGED storeVars
    /\ UNCHANGED pipeVars
    /\ UNCHANGED queryVars
    /\ UNCHANGED ocrVars

\* cmd_ask: usage reply, cooldown reply, or the cooldown entry is set and
\* the search and the answer follow
CmdAsk(chat_id, rest) ==
    /\ mainPc = "polling"
    /\ LET question == Strip(rest)
           remaining == CooldownRemaining(AskCooldown, clock, ask_cooldowns[chat_id])
           prev == DictGet(lastAdmit.ask, chat_id)
       IN  IF question = <<>>
           THEN /\ lastReply' = Reply("ask", chat_id, "usage", 0, prev)
                /\ UNCHANGED <<ask_cooldowns, lastAdmit>>
           ELSE IF chat_id \in DOMAIN ask_cooldowns /\ OnCooldown(remaining)
           THEN /\ lastReply' = Reply("ask", chat_id, "rejected",
                                      AskSecondsRemaining(remaining), prev)
                /\ UNCHANGED <<ask_cooldowns, lastAdmit>>
           ELSE /\ ask_cooldowns' = DictSet(ask_cooldowns, chat_id, clock)
                /\ lastAdmit' = [lastAdmit EXCEPT !.ask = DictSet(@, chat_id, clock)]
                /\ \E after \in AskAfter :
                       lastReply' = Admitted("ask", chat_id, prev, after)
    /\ UNCHANGED <<clock, advances, summary_cooldowns, saves>>
    /\ UNCHANGED storeVars
    /\ UNCHANGED pipeVars
    /\ UNCHANGED queryVars
    /\ UNCHANGED ocrVars

\* cmd_summary: the cooldown check and, for an admitted request, the
\* summary of the recent messages of the chat; failed: the edit_text that
\* sends the outcome raised, and the except block reports the error
CmdSummary(chat_id) ==
    /\ mainPc = "polling"
    /\ LET remaining == CooldownRemaining(SummaryCooldown, clock, summary_cooldowns[chat_id])
           prev == DictGet(lastAdmit.summary, chat_id)
       IN  IF chat_id \in DOMAIN summary_cooldowns /\ OnCooldown(remaining)
           THEN /\ lastReply' = Reply("summary", chat_id, "rejected",
                                      SummaryWaitShown(remaining), prev)
                /\ lastSummary' = [chat_id |-> chat_id, outcome |-> "cooldown",
                                   summarizer_calls |-> 0, raised |-> FALSE]
                /\ UNCHANGED <<summary_cooldowns, lastAdmit>>
           ELSE /\ summary_cooldowns' = DictSet(summary_cooldowns, chat_id, clock)
                /\ lastAdmit' = [lastAdmit EXCEPT !.summary = DictSet(@, chat_id, clock)]
                /\ \E recent_messages \in
                       MongoGetRecentMessages(messages_collection, chat_id, RecentLimit),
                      failed \in BOOLEAN :
                       /\ lastSummary' = SummaryOf(chat_id, recent_messages)
                       /\ lastReply' =
                            Admitted("summary", chat_id, prev,
                                     IF failed THEN "error"
                                     ELSE SummaryOf(chat_id, recent_messages).outcome)
    /\ UNCHANGED <<clock, advances, ask_cooldowns, saves, lastQuery>>
    /\ UNCHANGED ocrVars
    /\ UNCHANGED storeVars
    /\ UNCHANGED pipeVars

\* ------------------------------------------------------------------------
\* Retrieval calls
\* ------------------------------------------------------------------------
\* the words stored and asked for: "retsenziya" with tse, "rezenziya" with
\* ze in its place, and two short words that differ in both letters
Retsenziya == <<"er", "ie", "tse", "ie", "en", "ze", "ii", "ya">>
Rezenziya == <<"er", "ie", "ze", "ie", "en", "ze", "ii", "ya">>
Tsi == <<"tse", "ii">>
Zy == <<"ze", "i">>

\* the texts of the stored messages
QueryTexts == {Retsenziya, Tsi, Zy}

\* the queries: the last one is not a regular expression
Queries == {Rezenziya, Tsi, <<"(">>}

\* the messages saved before the retrieval calls: two dates, one inside the
\* recency window of every call and one before it
QueryDates == {1, 9}

\* chat 1 has messages of every text and date, chat 2 a recent one that
\* has the words asked for
QueryMessages ==
    {TelegramMessage(i, t, "u", d, 1) : i \in MessageIds, t \in QueryTexts, d \in QueryDates}
    \cup {TelegramMessage(1, Tsi, "v", 9, 2)}

\* datetime.now(timezone.utc) at a get_recent_messages call, in days
Nows == {10}

\* the limits asked for
Limits == 1..MaxLimit

\* what lastQuery records of a retrieval call; failed: the backend
\* failures the call met
QueryResult(op, chat_id, query, limit, failed, o) ==
    [op |-> op, chat_id |-> chat_id, query |-> query, limit |-> limit, failed |-> failed,
     messages |-> o.messages, raised |-> o.raised, calls |-> o.calls]

\* the retrieval calls leave everything but lastQuery as it is
QueryFrame ==
    /\ UNCHANGED <<lastSummary, saves>>
    /\ UNCHANGED storeVars
    /\ UNCHANGED pipeVars
    /\ UNCHANGED rateVars
    /\ UNCHANGED ocrVars

\* MessageDatabase.get_recent_messages(chat_id, limit)
GetRecentCall(chat_id, limit) ==
    /\ lastQuery' \in
         {QueryResult("mongo_recent", chat_id, NoText, limit, <<>>, Outcome(r, FALSE, <<>>)) :
             r \in MongoGetRecentMessages(messages_collection, chat_id, limit)}
    /\ QueryFrame

\* VectorDatabase.get_recent_messages(chat_id, limit) with days_back = 7
VectorGetRecentCall(chat_id, limit, now, firstFails, secondFails) ==
    /\ lastQuery' \in
         {QueryResult("vector_recent", chat_id, NoText, limit, <<firstFails, secondFails>>,
                      Outcome(r, FALSE, <<>>)) :
             r \in VectorGetRecentMessages(collection, chat_id, limit, DaysBack, now,
                                           firstFails, secondFails)}
    /\ QueryFrame

\* VectorDatabase.get_recent_messages(chat_id, limit, days_back) with no
\* failure of the backend; the call is recorded with its days_back and now
VectorGetRecentWindowCall(chat_id, limit, days_back, now) ==
    /\ lastQuery' \in
         {[days_back |-> days_back, now |-> now]
          @@ QueryResult("vector_recent", chat_id, NoText, limit, <<FALSE, FALSE>>,
                         Outcome(r, FALSE, <<>>)) :
             r \in VectorGetRecentMessages(collection, chat_id, limit, days_back, now,
                                           FALSE, FALSE)}
    /\ QueryFrame

\* MessageDatabase.search_messages_regex(chat_id, query, limit)
SearchRegexCall(chat_id, query, limit) ==
    /\ lastQuery' \in
         {QueryResult("regex", chat_id, query, limit, <<>>, o) :
             o \in SearchMessagesRegex(messages_collection, chat_id, query, limit)}
    /\ QueryFrame

\* MessageDatabase.search_messages(chat_id, query, limit)
SearchCall(chat_id, query, limit, textFails) ==
    /\ lastQuery' \in
         {QueryResult("search", chat_id, query, limit, <<textFails>>, o) :
             o \in MongoSearchMessages(messages_collection, chat_id, query, limit, textFails)}
    /\ QueryFrame

\* TelegramSearchClient.search_messages(chat_id, query, limit); limit 0 is
\* the call without a limit
ClientSearchCall(chat_id, query, limit, textFails) ==
    /\ lastQuery' \in
         {QueryResult("client", chat_id, query, limit, <<textFails>>, o) :
             o \in ClientSearchMessages(messages_collection, chat_id, query, limit, textFails)}
    /\ QueryFrame

\* VectorDatabase.search_messages(chat_id, query, limit)
VectorSearchCall(chat_id, query, limit, fails) ==
    /\ lastQuery' \in
         {QueryResult("vector", chat_id, query, limit, <<fails>>, o) :
             o \in VectorSearchMessages(collection, chat_id, query, limit, fails)}
    /\ QueryFrame

\* ------------------------------------------------------------------------
\* The OCR engine (ocr.py) on the threads of the executor
\* ------------------------------------------------------------------------
\* ThreadPoolExecutor(max_workers=2)
ExecutorWorkers == 2

\* extract_text_from_image calls submitted in one run
MaxExtracts == 4

\* the values of the global reader: None, False, an easyocr.Reader
NoReader == [state |-> None]
FailedReader == [state |-> "False"]
ReaderInstance(n) == [state |-> "Reader", instance |-> n]

\* a thread of the pool with no call running; result is what its last
\* extract_text_from_image call returned, after_failure whether that call
\* began after an initialisation had failed, retried whether it began an
\* initialisation after one had failed
IdleThread ==
    [pc |-> "idle", ocr_reader |-> NoReader, result |-> None,
     after_failure |-> FALSE, retried |-> FALSE]

\* the steps of the executor leave everything else as it is
OcrFrame ==
    /\ UNCHANGED saves
    /\ UNCHANGED storeVars
    /\ UNCHANGED pipeVars
    /\ UNCHANGED rateVars
    /\ UNCHANGED queryVars

\* run_in_executor(executor, extract_text_from_image, image_bytes): a free
\* thread of the pool begins the call
ExtractSubmit(t) ==
    /\ extracts < MaxExtracts
    /\ executor[t].pc = "idle"
    /\ executor' = [executor EXCEPT ![t] =
                       [pc |-> "get_reader", ocr_reader |-> NoReader, result |-> None,
                        after_failure |-> init_failed, retried |-> FALSE]]
    /\ extracts' = extracts + 1
    /\ UNCHANGED <<reader, reader_inits, init_failed>>
    /\ OcrFrame

\* get_reader: the test "if reader is None"
GetReaderTest(t) ==
    /\ executor[t].pc = "get_reader"
    /\ executor' = [executor EXCEPT
                       ![t].pc = IF reader = NoReader THEN "init" ELSE "return",
                       ![t].retried = (reader = NoReader /\ init_failed)]
    /\ UNCHANGED <<reader, reader_inits, init_failed, extracts>>
    /\ OcrFrame

\* get_reader: easyocr.Reader(...) returns and is assigned to reader, or
\* raises and reader is set to False
GetReaderInit(t, raises) ==
    /\ executor[t].pc = "init"
    /\ reader_inits' = reader_inits + 1
    /\ reader' = IF raises THEN FailedReader ELSE ReaderInstance(reader_inits + 1)
    /\ init_failed' = (init_failed \/ raises)
    /\ executor' = [executor EXCEPT ![t].pc = "return"]
    /\ UNCHANGED extracts
    /\ OcrFrame

\* get_reader: return reader if reader is not False else None
GetReaderReturn(t) ==
    /\ executor[t].pc = "return"
    /\ executor' = [executor EXCEPT
                       ![t].pc = "extract",
                       ![t].ocr_reader = IF reader = FailedReader THEN NoReader ELSE reader]
    /\ UNCHANGED <<reader, reader_inits, init_failed, extracts>>
    /\ OcrFrame

\* extract_text_from_image after get_reader: None without a reader; with
\* one, the text read, or None when nothing was read or the reading raised
ExtractText(t, text) ==
    /\ executor[t].pc = "extract"
    /\ executor' = [executor EXCEPT
                       ![t].pc = "idle",
                       ![t].result = IF executor[t].ocr_reader = NoReader THEN None ELSE text]
    /\ UNCHANGED <<reader, reader_inits, init_failed, extracts>>
    /\ OcrFrame

\* ------------------------------------------------------------------------
\* Specifications
\* ------------------------------------------------------------------------
\* the state after the module-level construction of bot.py
Init ==
    /\ mainPc = "start"
    /\ uniqueIndex = FALSE
    /\ messages_collection = EmptyBag
    /\ collection = EmptyBag
    /\ ocr_queue = <<>>
    /\ unfinished_tasks = 0
    /\ workers = <<>>
    /\ handlers = <<>>
    /\ jobs = <<>>
    /\ events = 0
    /\ saves = 0
    /\ lastSave = NoSave
    /\ clock = 0
    /\ advances = 0
    /\ ask_cooldowns = <<>>
    /\ summary_cooldowns = <<>>
    /\ lastAdmit = [ask |-> <<>>, summary |-> <<>>]
    /\ lastReply = NoReply
    /\ lastSummary = [outcome |-> None]
    /\ lastQuery = [op |-> None]
    /\ reader = NoReader
    /\ executor = [t \in 1..ExecutorWorkers |-> IdleThread]
    /\ reader_inits = 0
    /\ init_failed = FALSE
    /\ extracts = 0

\* the steps of main()
MainStep == MainStart \/ MainShutdown \/ MainGathered \/ MainClose

\* the steps of the worker tasks
WorkerStep ==
    \E w \in 1..NumWorkers :
        \/ WorkerGet(w)
        \/ WorkerOcrDone(w)
        \/ WorkerSave(w)
        \/ WorkerWake(w)
        \/ WorkerCancelled(w)

\* the steps of handlers in flight that every pipeline run can take
HandlerStep == \E h \in 1..MaxHandlers : TextSave(h) \/ CaptionSave(h)

\* the pipeline: a few updates of every kind, and the migration script run
\* beside the bot
Next ==
    \/ MainStep
    \/ WorkerStep
    \/ HandlerStep
    \/ (events < MaxEvents /\ \E u \in TextUpdates : TextArrive(u))
    \/ (events < MaxEvents /\ \E u \in PhotoUpdates : PhotoArrive(u))
    \/ (saves < MaxSaves /\ \E doc \in BagToSet(messages_collection) : MigrateMessage(doc))

Spec == Init /\ [][Next]_vars

\* the event loop keeps running every task that can run
FairSpec ==
    Spec /\ WF_vars(MainGathered \/ MainClose) /\ WF_vars(WorkerStep) /\ WF_vars(HandlerStep)

\* the store level: save calls on both stores and the migration
StoreNext ==
    \/ MainStart
    \/ (saves < MaxSaves /\ \E m \in ApiMessages : MongoSaveCall(m))
    \/ (saves < MaxSaves
        /\ \E m \in ApiMessages, getFails \in BOOLEAN : VectorSaveCall(m, getFails))
    \/ (saves < MaxSaves /\ \E doc \in BagToSet(messages_collection) : MigrateMessage(doc))

StoreSpec == Init /\ [][StoreNext]_vars

\* the photos a burst needs to fill the workers and the queue, and more
BurstEvents == MaxDequeues + QueueMaxsize + MaxOverflow

\* the jobs taken off the queue so far
Dequeued ==
    {j \in DOMAIN jobs : jobs[j].status \notin {"put_wait", "enqueued", "dropped"}}

\* the pipeline under a burst of photos
BurstNext ==
    \/ MainStart
    \/ (Cardinality(Dequeued) < MaxDequeues /\ \E w \in 1..NumWorkers : WorkerGet(w))
    \/ \E w \in 1..NumWorkers : WorkerOcrDone(w) \/ WorkerSave(w)
    \/ (events < BurstEvents /\ \E u \in BurstUpdates(events + 1) : PhotoArrive(u))
    \/ \E h \in 1..MaxHandlers : PutWake(h) \/ PutTimeout(h) \/ CaptionSave(h)
    \/ SecondPasses

BurstSpec == Init /\ [][BurstNext]_vars

\* time does not stand still, and the event loop resumes a blocked put that
\* has room or has timed out
BurstFairSpec ==
    /\ BurstSpec
    /\ WF_vars(SecondPasses)
    /\ WF_vars(\E h \in 1..MaxHandlers : PutWake(h) \/ PutTimeout(h))

\* the updates of an intake run: one more than there are workers, so that a
\* job can wait in the queue while every worker is busy
IntakeEvents == NumWorkers + 1

\* the steps a worker takes while nothing cancels it
WorkerRuns(w) == WorkerGet(w) \/ WorkerOcrDone(w) \/ WorkerSave(w) \/ WorkerWake(w)

\* the pipeline while the bot keeps polling: no shutdown is begun
IntakeNext ==
    \/ MainStart
    \/ \E w \in 1..NumWorkers : WorkerRuns(w)
    \/ HandlerStep
    \/ (events < IntakeEvents /\ \E u \in TextUpdates : TextArrive(u))
    \/ (events < IntakeEvents /\ \E u \in PhotoUpdates : PhotoArrive(u))

IntakeSpec == Init /\ [][IntakeNext]_vars

\* the event loop resumes every worker that can go on: a get with a job in
\* the queue, an OCR call that has returned, a save, the end of a pause
IntakeFairSpec ==
    IntakeSpec /\ \A w \in 1..NumWorkers : WF_vars(WorkerRuns(w))

\* the commands and the clock
RateNext ==
    \/ MainStart
    \/ \E d \in Delays : Advance(d)
    \/ \E c \in ChatIds, rest \in AskRests : CmdAsk(c, rest)
    \/ \E c \in ChatIds : CmdSummary(c)

RateSpec == Init /\ [][RateNext]_vars

\* no retrieval call and no /summary has been made yet
Unqueried == lastQuery.op = None /\ lastSummary.outcome = None

\* the messages saved to the vector store before the retrieval calls: the
\* text plays no part in what the model has of a vector retrieval
VectorMessages == {m \in QueryMessages : m.text = Tsi}

\* the bot is polling and no retrieval call has been made
Ready == Unqueried /\ mainPc = "polling"

\* retrieval: one of the stores is filled by save calls and then read by one
\* retrieval call or /summary; a retrieval call reads one store, and changes
\* nothing that a later one reads
QueryNext ==
    \/ MainStart
    \/ (Ready /\ saves < MaxSaves /\ collection = EmptyBag
        /\ \E m \in QueryMessages : MongoSaveCall(m))
    \/ (Ready /\ saves < MaxSaves /\ messages_collection = EmptyBag
        /\ \E m \in VectorMessages : VectorSaveCall(m, FALSE))
    \/ (Ready /\ \E c \in ChatIds, limit \in Limits : GetRecentCall(c, limit))
    \/ (Ready /\ \E c \in ChatIds, limit \in Limits, now \in Nows,
                     firstFails, secondFails \in BOOLEAN :
                     VectorGetRecentCall(c, limit, now, firstFails, secondFails))
    \/ (Ready /\ \E c \in ChatIds, q \in Queries, limit \in Limits :
                     SearchRegexCall(c, q, limit))
    \/ (Ready /\ \E c \in ChatIds, q \in Queries, limit \in Limits, textFails \in BOOLEAN :
                     SearchCall(c, q, limit, textFails))
    \/ (Ready /\ \E c \in ChatIds, q \in Queries, limit \in {0} \cup Limits,
                     textFails \in BOOLEAN :
                     ClientSearchCall(c, q, limit, textFails))
    \/ (Ready /\ \E c \in ChatIds, q \in Queries, limit \in Limits, fails \in BOOLEAN :
                     VectorSearchCall(c, q, limit, fails))
    \/ (Ready /\ \E c \in ChatIds : CmdSummary(c))

QuerySpec == Init /\ [][QueryNext]_vars

\* the messages saved before a recent call with a window: up to MaxSaves in
\* chat 1, each inside or before the windows asked for, and one in chat 2
WindowMessages(n) ==
    {TelegramMessage(n, Tsi, "u", d, 1) : d \in QueryDates}
    \cup {TelegramMessage(n, Tsi, "v", 9, 2)}

\* the windows asked for, in days before now: none of the stored messages
\* inside, the newer ones, the default window, all of them
DaysBacks == {0, 1, DaysBack, 10}

\* recent on the vector store with windows of several lengths
WindowNext ==
    \/ (Unqueried /\ saves < MaxSaves
        /\ \E m \in WindowMessages(saves + 1) : VectorSaveCall(m, FALSE))
    \/ (Unqueried /\ \E c \in ChatIds, limit \in Limits, d \in DaysBacks, now \in Nows :
                          VectorGetRecentWindowCall(c, limit, d, now))

WindowSpec == Init /\ [][WindowNext]_vars

\* the saves that fill the vector store up to vector_search_limit and beyond
SemanticSaves == VectorSearchLimit + MaxBeyond

\* the n-th message saved: the first two in any chat, the others in chat 1
SemanticMessages(n) ==
    {TelegramMessage(n, Tsi, "u", 1, c) : c \in (IF n <= 2 THEN ChatIds ELSE {1})}

\* the limits asked of a semantic search: around vector_search_limit
SemanticLimits == {1} \cup ((VectorSearchLimit - 1)..SemanticSaves)

\* semantic search on a vector store of more than vector_search_limit messages
SemanticNext ==
    \/ (Unqueried /\ saves < SemanticSaves
        /\ \E m \in SemanticMessages(saves + 1) : VectorSaveCall(m, FALSE))
    \/ (Unqueried /\ \E c \in ChatIds, limit \in SemanticLimits, fails \in BOOLEAN :
                          VectorSearchCall(c, Tsi, limit, fails))

SemanticSpec == Init /\ [][SemanticNext]_vars

\* what a reading gives: a text, or nothing
ExtractedTexts == {"text", None}

\* the OCR calls of the two workers on the threads of the executor
OcrNext ==
    \E t \in 1..ExecutorWorkers :
        \/ ExtractSubmit(t)
        \/ GetReaderTest(t)
        \/ \E raises \in BOOLEAN : GetReaderInit(t, raises)
        \/ GetReaderReturn(t)
        \/ \E text \in ExtractedTexts : ExtractText(t, text)

OcrSpec == Init /\ [][OcrNext]_vars

\* ------------------------------------------------------------------------
\* Properties of the stores
\* ------------------------------------------------------------------------
\* the documents of a MongoDB collection that have a key
MongoWithKey(coll, chat_id, message_id) ==
    {d \in BagToSet(coll) : d.chat_id = chat_id /\ d.message_id = message_id}

\* the number of records a collection holds for a key
MongoCount(coll, chat_id, message_id) ==
    LET ds == MongoWithKey(coll, chat_id, message_id)
        RECURSIVE Sum(_)
        Sum(S) == IF S = {} THEN 0
                  ELSE LET d == CHOOSE x \in S : TRUE IN CopiesIn(d, coll) + Sum(S \ {d})
    IN  Sum(ds)

ChromaCount(coll, chat_id, message_id) ==
    LET rs == {r \in BagToSet(coll) :
                  r.metadata.chat_id = chat_id /\ r.metadata.message_id = message_id}
        RECURSIVE Sum(_)
        Sum(S) == IF S = {} THEN 0
                  ELSE LET r == CHOOSE x \in S : TRUE IN CopiesIn(r, coll) + Sum(S \ {r})
    IN  Sum(rs)

\* C1: whatever saves the text handler, the caption save, the OCR workers and
\* the migration have made, in whatever order, each store holds at most one
\* record for each (chat_id, message_id) pair.
C1_AtMostOneRecordPerKey ==
    \A c \in ChatIds, i \in MessageIds :
        /\ MongoCount(messages_collection, c, i) <= 1
        /\ ChromaCount(collection, c, i) <= 1

\* C1 witness: a save for a key that was already stored has been made (the
\* OCR save of a photo whose caption is stored) and the vector store holds
\* a migrated record as well.
C1_Witness ==
    /\ \E j \in DOMAIN jobs : jobs[j].status = "committed" /\ jobs[j].existed
    /\ collection # EmptyBag
    /\ lastSave.store = "chroma" /\ lastSave.existed

\* every record a collection holds is still there, exactly as it was, and
\* what the step added has a key the collection did not hold
MongoKept ==
    /\ \A d \in BagToSet(messages_collection) :
          CopiesIn(d, messages_collection') = CopiesIn(d, messages_collection)
    /\ \A d \in BagToSet(messages_collection') :
          BagIn(d, messages_collection)
          \/ ~MongoHasKey(messages_collection, d.chat_id, d.message_id)

ChromaKept ==
    /\ \A r \in BagToSet(collection) : CopiesIn(r, collection') = CopiesIn(r, collection)
    /\ \A r \in BagToSet(collection') :
          BagIn(r, collection) \/ ChromaGetIds(collection, r.id) = {}

\* C2: save is idempotent, first write wins: no save call raises, and a save
\* leaves every stored record exactly as it was; it adds a record only under
\* a key that was not stored (so a save under a stored key changes nothing,
\* whatever its text, sender or date).
C2_FirstWriteWins ==
    [][/\ MongoKept
       /\ ChromaKept
       /\ (lastSave'.store # None => ~lastSave'.raised)]_vars

\* C2 witness: the last save call had a stored key and another text, sender
\* and date than the record stored under that key, which is still there.
C2_Witness ==
    /\ lastSave.store = "mongo"
    /\ lastSave.existed
    /\ \E d \in MongoWithKey(messages_collection, lastSave.message.chat_id,
                             lastSave.message.id) :
          /\ d.text # lastSave.message.text
          /\ d.sender # lastSave.message.sender
          /\ d.date # lastSave.message.date

\* C3: a save of a message whose text is empty after trimming creates no
\* record: no store holds a record whose trimmed text is empty.
C3_NoBlankRecord ==
    /\ \A d \in BagToSet(messages_collection) : Strip(d.text) # <<>>
    /\ \A r \in BagToSet(collection) : Strip(r.document) # <<>>

\* ------------------------------------------------------------------------
\* Properties of the pipeline
\* ------------------------------------------------------------------------
\* C4: a shutdown begun while jobs are in the queue returns, with the queue
\* empty and no worker alive.
C4_ShutdownReturns ==
    (mainPc = "gather" /\ ocr_queue # <<>>)
        ~> (mainPc = "returned" /\ ocr_queue = <<>> /\ AllWorkersDone)

\* C5: when shutdown has returned, every job a worker took off the queue is
\* committed, discarded-empty or discarded-error.
C5_NoJobAbandoned ==
    mainPc = "returned" =>
        \A j \in DOMAIN jobs :
            jobs[j].status \notin {"put_wait", "enqueued", "dropped"}
                => jobs[j].status \in TerminalStatus

\* the document a worker stores for a job
OcrDocument(j) == MongoDocument(OcrMessage(jobs[j].update))

\* C6: a put that finds the queue full does not block beyond its timeout:
\* it waits at most PutTimeoutSec seconds and then ends (again and again no
\* put is blocked), enqueued if a worker made room, dropped if not; it is
\* dropped only with the queue full at the end of the timeout, and a dropped
\* job stays dropped, is never in the queue or with a worker, and no OCR
\* record of it is stored.
C6_BoundedPutThenDrop ==
    /\ [](\A h \in DOMAIN handlers :
            handlers[h].pc = "put_wait" => handlers[h].waited <= PutTimeoutSec)
    /\ [](\A j \in DOMAIN jobs :
            jobs[j].status = "dropped" =>
                /\ \A q \in DOMAIN ocr_queue : ocr_queue[q] # j
                /\ \A w \in DOMAIN workers : workers[w].job # j
                /\ ~BagIn(OcrDocument(j), messages_collection))
    /\ [][\A j \in DOMAIN jobs :
            /\ jobs[j].status = "dropped" => jobs'[j].status = "dropped"
            /\ (jobs[j].status # "dropped" /\ jobs'[j].status = "dropped") =>
                  /\ QueueFull(ocr_queue)
                  /\ \E h \in DOMAIN handlers :
                        /\ handlers[h].job = j
                        /\ handlers[h].pc = "put_wait"
                        /\ handlers[h].waited = PutTimeoutSec]_vars
    /\ []<>(\A h \in DOMAIN handlers : handlers[h].pc # "put_wait")

\* C6 witness: a job was dropped with the queue full, while the OCR record
\* of a job that was accepted is stored.
C6_Witness ==
    /\ \E j \in DOMAIN jobs : jobs[j].status = "dropped"
    /\ QueueFull(ocr_queue)
    /\ \E j \in DOMAIN jobs :
          jobs[j].status = "committed" /\ BagIn(OcrDocument(j), messages_collection)

\* the OCR output of a job
OcrOutput(j) == ExtractTextFromImage(jobs[j].update.image)

C8_OnlyCancellationEndsWorker ==
    /\ [](\A w \in DOMAIN workers :
            (workers[w].erred /\ workers[w].pc = "done") => workers[w].cancel)
    /\ [][\A w \in DOMAIN workers :
            (workers[w].pc # "done" /\ workers'[w].pc = "done") => workers[w].cancel]_vars

\* C8 witness: a worker that caught an error has taken a later job off the
\* queue and is running OCR on it, not cancelled.
C8_Witness ==
    \E w \in DOMAIN workers :
        /\ workers[w].erred
        /\ workers[w].pc = "ocr"
        /\ ~workers[w].cancel
        /\ \E j \in DOMAIN jobs : j < workers[w].job /\ jobs[j].status = "discarded_error"

\* ------------------------------------------------------------------------
\* Properties of the cooldowns
\* ------------------------------------------------------------------------
CooldownOf(kind) == IF kind = "ask" THEN AskCooldown ELSE SummaryCooldown

\* C9: per chat and command kind, an admitted request is at least the
\* cooldown after the admitted request before it, and a request is rejected
\* for cooldown only less than the cooldown after the last admitted one.
C9_CooldownEnforced ==
    /\ lastReply.kind # None /\ lastReply.outcome = "admitted" =>
          \A t \in lastReply.prevAdmit : lastReply.at - t >= CooldownOf(lastReply.kind)
    /\ lastReply.kind # None /\ lastReply.outcome = "rejected" =>
          /\ lastReply.prevAdmit # {}
          /\ \A t \in lastReply.prevAdmit : lastReply.at - t < CooldownOf(lastReply.kind)

\* C9 witness: a request was admitted exactly one cooldown after the
\* admitted request before it.
C9_Witness ==
    /\ lastReply.kind # None
    /\ lastReply.outcome = "admitted"
    /\ \E t \in lastReply.prevAdmit : lastReply.at - t = CooldownOf(lastReply.kind)

\* C10: a request rejected for cooldown is told a wait that is positive.
C10_PositiveWait ==
    lastReply.kind # None /\ lastReply.outcome = "rejected" => lastReply.wait > 0

\* the entry a cooldown dict has for a chat: none or one
CooldownEntries(kind, chat_id) ==
    IF kind = "ask" THEN DictGet(ask_cooldowns, chat_id)
    ELSE DictGet(summary_cooldowns, chat_id)

\* C11: a cooldown entry changes only in the step of an admitted request,
\* and only the entry of that request's own chat and command kind: a
\* rejected request and an /ask without a question leave both dicts as they
\* were, an admitted /ask changes no /summary entry and no other chat's
\* entry, and the other way round.
C11_CooldownFrame ==
    [][\A kind \in {"ask", "summary"}, c \in ChatIds :
          CooldownEntries(kind, c)' # CooldownEntries(kind, c)
            => /\ lastReply'.kind = kind
               /\ lastReply'.chat_id = c
               /\ lastReply'.outcome = "admitted"
               /\ lastReply'.at = clock
               /\ CooldownEntries(kind, c)' = {clock}]_vars

\* a request was rejected, and an /ask had no question, while entries of
\* the other kind and of the other chat exist
C11_Witness ==
    /\ lastReply.kind = "ask"
    /\ lastReply.outcome \in {"rejected", "usage"}
    /\ \E c \in ChatIds \ {lastReply.chat_id} : c \in DOMAIN ask_cooldowns
    /\ lastReply.chat_id \in DOMAIN summary_cooldowns
    /\ lastReply.chat_id \in DOMAIN ask_cooldowns

\* ------------------------------------------------------------------------
\* Properties of retrieval
\* ------------------------------------------------------------------------
\* the searches of the store that db.search_messages made in a call of the
\* orchestrator: the text search, and the fallback matcher after an empty one
StoreSearchCalls ==
    IF Len(lastQuery.calls) >= 2 /\ lastQuery.calls[1].messages = <<>>
    THEN SubSeq(lastQuery.calls, 1, 2) ELSE SubSeq(lastQuery.calls, 1, 1)

\* what db.search_messages returned to the orchestrator
StoreSearchResult == StoreSearchCalls[Len(StoreSearchCalls)].messages

\* search k of the call was the fallback matcher with the term and the
\* limit of the call
IsFallback(k) ==
    /\ lastQuery.calls[k].op = "regex"
    /\ lastQuery.calls[k].query = lastQuery.query
    /\ lastQuery.calls[k].limit = EffectiveLimit(lastQuery.limit)

C13_FuzzyFindsSubstitution ==
    (/\ lastQuery.op = "regex"
     /\ lastQuery.query = Rezenziya
     /\ \E d \in BagToSet(messages_collection) :
            d.chat_id = lastQuery.chat_id /\ d.text = Retsenziya)
    => /\ ~lastQuery.raised
       /\ \E k \in 1..Len(lastQuery.messages) : lastQuery.messages[k].text = Retsenziya

\* C16: no search call of the retrieval path raises to its caller: a
\* failure of the backend gives an empty result.
C16_SearchNeverRaises ==
    lastQuery.op \in {"vector", "search", "regex", "client"} => ~lastQuery.raised

\* the number of messages a chat has in the vector store
ChromaChatCount(chat_id) == BagCardinality(WhereChat(collection, chat_id))

\* the number of messages a chat has in the MongoDB collection
MongoChatCount(chat_id) ==
    BagCardinality(BagFilter(messages_collection,
                             {d \in BagToSet(messages_collection) : d.chat_id = chat_id}))

\* a recent-messages call of either store
IsRecent == lastQuery.op \in {"mongo_recent", "vector_recent"}

C15_RecentBackfilled ==
    lastQuery.op = "vector_recent" =>
        Len(lastQuery.messages) = Min(lastQuery.limit, ChromaChatCount(lastQuery.chat_id))

\* C15, amended: unless both the query of the try block and the query of
\* the except block fail, recent(chat_id, limit, window) returns exactly
\* min(limit, number of stored messages of the chat) messages, older ones
\* filling up what the window lacks; when both fail it returns none.
C15_RecentBackfilledUnlessBackendDown ==
    lastQuery.op = "vector_recent" =>
        Len(lastQuery.messages) =
            IF lastQuery.failed = <<TRUE, TRUE>> THEN 0
            ELSE Min(lastQuery.limit, ChromaChatCount(lastQuery.chat_id))

\* the window held fewer messages than the limit, and an older message of
\* the chat fills the result
C15_Witness ==
    /\ lastQuery.op = "vector_recent"
    /\ lastQuery.failed = <<FALSE, FALSE>>
    /\ lastQuery.limit = 2
    /\ Len(lastQuery.messages) = 2
    /\ \E now \in Nows : /\ lastQuery.messages[1].date < now - DaysBack
                          /\ lastQuery.messages[2].date >= now - DaysBack

C18_ChatIsolation ==
    lastQuery.op \in {"mongo_recent", "vector_recent", "vector", "regex", "search", "client"} =>
        \A k \in 1..Len(lastQuery.messages) :
            lastQuery.messages[k].chat_id = lastQuery.chat_id

\* a retrieval from the vector store returned messages while the store
\* held a message of another chat
C18_Witness ==
    /\ lastQuery.op \in {"vector_recent", "vector"}
    /\ lastQuery.messages # <<>>
    /\ \E r \in BagToSet(collection) : r.metadata.chat_id # lastQuery.chat_id

\* C19 as stated: when the backend does not fail, semantic search returns
\* exactly min(limit, number of stored messages of the chat) messages.
C19_SemanticReturnsLimit ==
    (lastQuery.op = "vector" /\ lastQuery.failed = <<FALSE>>) =>
        Len(lastQuery.messages) = Min(lastQuery.limit, ChromaChatCount(lastQuery.chat_id))

\* C19, amended: when the backend does not fail, semantic search returns
\* exactly min(limit, vector_search_limit, number of stored messages of the
\* chat) messages.
C19_SemanticReturnsCappedLimit ==
    (lastQuery.op = "vector" /\ lastQuery.failed = <<FALSE>>) =>
        Len(lastQuery.messages) =
            Min(Min(lastQuery.limit, VectorSearchLimit), ChromaChatCount(lastQuery.chat_id))

\* more than vector_search_limit messages were asked for in a chat that
\* has them, and vector_search_limit came back
C19_Witness ==
    /\ lastQuery.op = "vector"
    /\ lastQuery.failed = <<FALSE>>
    /\ lastQuery.limit > VectorSearchLimit
    /\ ChromaChatCount(lastQuery.chat_id) > VectorSearchLimit
    /\ Len(lastQuery.messages) = VectorSearchLimit

\* the patterns of the fallback matcher for the query of the call
CallPatterns == UniquePatterns(CreateFuzzyPatterns(lastQuery.query), <<>>)

\* the stored messages of the chat of the call that pattern k matches
MatchedBy(k) ==
    {DocMessage(d) : d \in {x \in BagToSet(messages_collection) :
                               /\ x.chat_id = lastQuery.chat_id
                               /\ RegexSearch(CallPatterns[k], x.text)}}

\* the patterns that match a stored message of the chat
MatchingPatterns == {k \in 1..Len(CallPatterns) : MatchedBy(k) # {}}

\* C20: the fallback matcher returns the matches of exactly one pattern,
\* the first in list order that matches a stored message of the chat,
\* newest first and truncated to limit; the results of different patterns
\* are never merged, and the result is empty only if no pattern matches.
C20_FirstMatchingPatternOnly ==
    (lastQuery.op = "regex" /\ ~lastQuery.raised) =>
        IF MatchingPatterns = {} THEN lastQuery.messages = <<>>
        ELSE LET first == CHOOSE k \in MatchingPatterns : \A x \in MatchingPatterns : k <= x
                 returned == {lastQuery.messages[k] : k \in 1..Len(lastQuery.messages)}
             IN  /\ returned \subseteq MatchedBy(first)
                 /\ Len(lastQuery.messages) = Min(lastQuery.limit, Cardinality(MatchedBy(first)))
                 /\ Cardinality(returned) = Len(lastQuery.messages)
                 /\ NewestFirst(lastQuery.messages)
                 /\ \A m \in MatchedBy(first) \ returned, r \in returned : m.date <= r.date

\* the first pattern matched one stored message and a later pattern
\* another one, which was not returned
C20_Witness ==
    /\ lastQuery.op = "regex"
    /\ lastQuery.query = Tsi
    /\ lastQuery.limit = 2
    /\ Len(lastQuery.messages) = 1
    /\ lastQuery.messages[1].text = Tsi
    /\ \E d \in BagToSet(messages_collection) : d.chat_id = lastQuery.chat_id /\ d.text = Zy

\* ------------------------------------------------------------------------
\* Properties of the fuzzy pattern
\* ------------------------------------------------------------------------
\* the characters a letter of the query may be swapped for: itself, and the
\* confusable counterpart the table has for it
Confusables(ch) ==
    {ch} \cup {Substitutions[k][2][3] : k \in {x \in 1..Len(Substitutions) :
                                                 Substitutions[x][1] = ch}}

\* text is the lowercased query with some of its table characters swapped
\* for their counterparts
IsSwapOf(text, query) ==
    /\ Len(text) = Len(query)
    /\ \A k \in 1..Len(query) : text[k] \in Confusables(LowerChar(query[k]))

\* C21: the fuzzy pattern built from a query has one character class per
\* table character and the other characters literal, so it matches every
\* text obtained from the query by swapping any subset of its table
\* characters for their counterparts: a stored message of the chat with such
\* a text is matched by the fuzzy pattern of a fallback search of the query.
C21_FuzzyMatchesSwaps ==
    lastQuery.op = "regex" =>
        \A d \in BagToSet(messages_collection) :
            (d.chat_id = lastQuery.chat_id /\ IsSwapOf(d.text, lastQuery.query)) =>
                /\ RegexValid(FuzzyText(lastQuery.query), 1)
                /\ RegexSearch(FuzzyText(lastQuery.query), d.text)

\* ------------------------------------------------------------------------
\* Properties of the recovery path of get_recent_messages
\* ------------------------------------------------------------------------
\* the messages the vector store has for the chat of the last call
ChatMessages ==
    {RecordMessage(r) : r \in BagToSet(WhereChat(collection, lastQuery.chat_id))}

\* C22: when the time-filtered query of recent fails, recent scans the chat
\* without the filter and returns what the primary path would have
\* returned: the newest limit messages of the chat, oldest first. When the
\* scan fails too, it returns the empty sequence. It never raises.
C22_RecentRecovers ==
    lastQuery.op = "vector_recent" =>
        /\ ~lastQuery.raised
        /\ lastQuery.failed = <<TRUE, TRUE>> => lastQuery.messages = <<>>
        /\ lastQuery.failed = <<TRUE, FALSE>> =>
             LET returned == {lastQuery.messages[k] : k \in 1..Len(lastQuery.messages)}
             IN  /\ \E now \in Nows :
                       lastQuery.messages \in
                           RecentInWindow(collection, lastQuery.chat_id, lastQuery.limit,
                                          now - DaysBack)
                 /\ returned \subseteq ChatMessages
                 /\ Len(lastQuery.messages) = Min(lastQuery.limit, Cardinality(ChatMessages))
                 /\ Cardinality(returned) = Len(lastQuery.messages)
                 /\ NewestFirst(Reversed(lastQuery.messages))
                 /\ \A m \in ChatMessages \ returned, r \in returned : m.date <= r.date

\* C22 witness: the time-filtered query failed with two messages of the chat
\* stored, one of them older than the window, and the newer one came back
C22_Witness ==
    /\ lastQuery.op = "vector_recent"
    /\ lastQuery.failed = <<TRUE, FALSE>>
    /\ lastQuery.limit = 1
    /\ Cardinality(ChatMessages) = 2
    /\ Len(lastQuery.messages) = 1
    /\ \E m \in ChatMessages : m.date < lastQuery.messages[1].date

\* ------------------------------------------------------------------------
\* Properties of the life of a job
\* ------------------------------------------------------------------------
\* the changes of status a job can go through: dequeued by a worker, which
\* hands it to OCR in the same step of the event loop, then discarded or
\* saved
JobTransitions ==
    {<<"put_wait", "enqueued">>, <<"put_wait", "dropped">>, <<"enqueued", "ocr">>,
     <<"ocr", "discarded_empty">>, <<"ocr", "discarded_error">>, <<"ocr", "save">>,
     <<"save", "committed">>}

\* C23: with the workers scheduled fairly and no shutdown begun, every job
\* that has been enqueued goes from enqueued to a worker and OCR and from
\* there to one terminal state (committed, discarded-empty or
\* discarded-error), which it reaches eventually and never leaves.
C23_EnqueuedJobTerminates ==
    /\ [][\A j \in DOMAIN jobs :
            jobs'[j].status # jobs[j].status =>
                <<jobs[j].status, jobs'[j].status>> \in JobTransitions]_vars
    /\ \A j \in 1..IntakeEvents :
          (j \in DOMAIN jobs /\ jobs[j].status = "enqueued")
              ~> (j \in DOMAIN jobs /\ jobs[j].status \in TerminalStatus)

\* C23 witness: more jobs than workers were enqueued and every one is in a
\* terminal state, each of the three terminal states among them
C23_Witness ==
    /\ Len(jobs) > NumWorkers
    /\ \A j \in DOMAIN jobs : jobs[j].status \in TerminalStatus
    /\ \A t \in TerminalStatus : \E j \in DOMAIN jobs : jobs[j].status = t

\* the jobs in the queue
Queued == {ocr_queue[k] : k \in 1..Len(ocr_queue)}

\* C24: no retries. A job is in the queue once at most and only until a
\* worker takes it; it enters the queue when its put succeeds and never
\* again, whatever its OCR gave; one worker at most holds it, and OCR runs
\* on it only in the step that took it off the queue.
C24_NoRetries ==
    [][/\ Cardinality(Queued) = Len(ocr_queue)
       /\ \A j \in Queued : jobs[j].status = "enqueued"
       /\ \A j \in Queued' \ Queued : j \notin DOMAIN jobs \/ jobs[j].status = "put_wait"
       /\ \A j \in DOMAIN jobs :
             (jobs'[j].status = "ocr" /\ jobs[j].status # "ocr") =>
                 /\ jobs[j].status = "enqueued"
                 /\ j = Head(ocr_queue) /\ j \notin Queued'
       /\ \A w, v \in DOMAIN workers :
             (workers[w].pc \in {"ocr", "save"} /\ workers[v].pc \in {"ocr", "save"}
              /\ workers[w].job = workers[v].job) => w = v
       /\ \A w \in DOMAIN workers :
             workers[w].pc \in {"ocr", "save"} => jobs[workers[w].job].status = workers[w].pc
      ]_vars

\* C24 witness: one job was discarded for an OCR that gave nothing, another
\* for an error, and the workers are idle again with the queue empty
C24_Witness ==
    /\ \E j \in DOMAIN jobs : jobs[j].status = "discarded_empty"
    /\ \E j \in DOMAIN jobs : jobs[j].status = "discarded_error"
    /\ ocr_queue = <<>>
    /\ \A w \in DOMAIN workers : workers[w].pc = "idle"
    /\ workers # <<>>

\* every worker is waiting for its OCR call in the executor
AllWorkersInOcr == workers # <<>> /\ \A w \in DOMAIN workers : workers[w].pc = "ocr"

\* C25: a slow OCR call does not stall intake. In every state in which all
\* workers are waiting on an OCR call, the save of a text message that has
\* arrived can be made, and it is made, the message stored, with every
\* worker still waiting on its OCR call.
C25_IntakeNotStalled ==
    /\ [](AllWorkersInOcr =>
            \A h \in DOMAIN handlers : handlers[h].pc = "text" => ENABLED TextSave(h))
    /\ [][\A h \in 1..MaxHandlers :
            (AllWorkersInOcr /\ TextSave(h)) =>
                /\ workers' = workers
                /\ MongoHasKey(messages_collection', handlers[h].update.chat_id,
                               handlers[h].update.message_id)]_vars

\* C25 witness: a text message has arrived and waits for its save while
\* every worker waits on an OCR call
C25_Witness ==
    /\ AllWorkersInOcr
    /\ \E h \in DOMAIN handlers : handlers[h].pc = "text"

\* the jobs whose OCR call is in progress
OcrInProgress == {j \in DOMAIN jobs : jobs[j].status = "ocr"}

\* C26: the queue never holds more jobs than its capacity (100), and at
\* most 2 OCR calls, one per worker, are in progress at any time.
C26_QueueAndOcrBounded ==
    /\ Len(ocr_queue) <= QueueMaxsize
    /\ Cardinality(OcrInProgress) <= NumWorkers
    /\ Cardinality(OcrInProgress)
         = Cardinality({w \in DOMAIN workers : workers[w].pc = "ocr"})

\* C26 witness: the queue is at its capacity, a put waits for room, and
\* every worker has an OCR call in progress
C26_Witness ==
    /\ Len(ocr_queue) = QueueMaxsize
    /\ Cardinality(OcrInProgress) = NumWorkers
    /\ \E h \in DOMAIN handlers : handlers[h].pc = "put_wait"

\* C27: within one chat, the saves of text messages are committed in the
\* order in which the messages arrived: when the save of a text message is
\* made, no text message of the same chat that arrived before it still
\* waits for its save (handlers holds the handlers in flight in the order
\* of arrival).
C27_TextSavesInArrivalOrder ==
    [][\A h \in 1..MaxHandlers :
          TextSave(h) =>
              \A g \in 1..(h - 1) :
                  (/\ handlers[g].pc = "text"
                   /\ handlers[g].update.chat_id = handlers[h].update.chat_id)
                  => handlers[g] = handlers[h]]_vars

\* ------------------------------------------------------------------------
\* Properties of the two saves of a photo
\* ------------------------------------------------------------------------
\* the photo of a job has a caption and text that OCR finds, and a sender,
\* so both of its saves are made
SavedTwice(j) ==
    /\ jobs[j].update.caption # NoText
    /\ OcrHasText(ExtractTextFromImage(jobs[j].update.image))
    /\ ~SenderRaises(jobs[j].update)

\* both saves of the photo of a job have been made
BothSaved(j) ==
    /\ jobs[j].status = "committed"
    /\ ~\E h \in DOMAIN handlers : handlers[h].job = j

\* the texts stored in the chat of an update
StoredTexts(coll, u) == {d.text : d \in {x \in BagToSet(coll) : x.chat_id = u.chat_id}}

\* a save made for the photo u with the given text: kept if the key of the
\* photo was free, without any effect if it was not
FirstKept(u, text) ==
    IF MongoHasKey(messages_collection, u.chat_id, u.message_id)
    THEN messages_collection' = messages_collection
    ELSE /\ MongoWithKey(messages_collection', u.chat_id, u.message_id)
              = {MongoDocument(TelegramMessage(u.message_id, text, u.from_user, u.date,
                                               u.chat_id))}
         /\ MongoKept

\* C28: for a photo that has a caption and text that OCR finds, the caption
\* save and the OCR save use the same (chat_id, message_id) key, so one
\* record results: the save that commits first is kept, the other one
\* stores nothing, and once both are made the key has exactly one record.
C28_OneRecordPerCaptionedPhoto ==
    /\ [](\A j \in DOMAIN jobs :
            SavedTwice(j) =>
                LET n == MongoCount(messages_collection, jobs[j].update.chat_id,
                                    jobs[j].update.message_id)
                IN  n <= 1 /\ (BothSaved(j) => n = 1))
    /\ [][/\ \A h \in 1..MaxHandlers :
                CaptionSave(h) =>
                    FirstKept(handlers[h].update, CaptionText(handlers[h].update.caption))
          /\ \A w \in 1..NumWorkers :
                WorkerSave(w) =>
                    LET u == jobs[workers[w].job].update
                    IN  FirstKept(u, OcrText(ExtractTextFromImage(u.image)))]_vars

\* C28 witness: both saves of a captioned photo are made, the key of the
\* photo holds the OCR text, and the caption is not stored
C28_Witness ==
    \E j \in DOMAIN jobs :
        LET u == jobs[j].update
        IN  /\ SavedTwice(j) /\ BothSaved(j)
            /\ ~jobs[j].existed
            /\ OcrText(ExtractTextFromImage(u.image)) \in StoredTexts(messages_collection, u)
            /\ CaptionText(u.caption) \notin StoredTexts(messages_collection, u)

\* the jobs a worker has taken off the queue and not finished handling
InProgress == {j \in DOMAIN jobs : jobs[j].status \in {"ocr", "save"}}

\* C29: the queue's accounting is balanced: task_done is signalled once for
\* every job a worker has finished handling, by commit, empty output or
\* processing error, so the count of unfinished tasks equals the jobs still
\* queued plus the jobs in progress.
C29_TaskDoneBalanced ==
    unfinished_tasks = Len(ocr_queue) + Cardinality(InProgress)

\* the runs of the fallback matcher that the last call made
FallbackRuns == {k \in 1..Len(lastQuery.calls) : lastQuery.calls[k].op = "regex"}

\* C30: a query of the orchestrator runs the fallback matcher at most once,
\* whatever the primary search gives, also when the primary search and the
\* fallback both find nothing.
C30_FallbackAtMostOnce ==
    lastQuery.op = "client" => Cardinality(FallbackRuns) <= 1

\* ------------------------------------------------------------------------
\* Properties of the recency window
\* ------------------------------------------------------------------------
\* C31: the recency window does not affect the result of recent: whatever
\* the store holds and whatever chat, limit and days_back are asked for,
\* get_recent_messages returns the newest limit messages of the chat,
\* oldest first, which is what it returns for every other days_back.
C31_WindowHasNoEffect ==
    (lastQuery.op = "vector_recent" /\ lastQuery.failed = <<FALSE, FALSE>>) =>
        LET returned == {lastQuery.messages[k] : k \in 1..Len(lastQuery.messages)}
        IN  /\ returned \subseteq ChatMessages
            /\ Len(lastQuery.messages) = Min(lastQuery.limit, Cardinality(ChatMessages))
            /\ Cardinality(returned) = Len(lastQuery.messages)
            /\ NewestFirst(Reversed(lastQuery.messages))
            /\ \A m \in ChatMessages \ returned, r \in returned : m.date <= r.date
            /\ \A d \in DaysBacks :
                  RecentInWindow(collection, lastQuery.chat_id, lastQuery.limit,
                                 lastQuery.now - d)
                  = RecentInWindow(collection, lastQuery.chat_id, lastQuery.limit,
                                   lastQuery.now - lastQuery.days_back)

\* C31 witness: the window asked for held none of the three messages of the
\* chat, two of which a longer window holds, and the two newest came back
C31_Witness ==
    /\ lastQuery.op = "vector_recent"
    /\ lastQuery.failed = <<FALSE, FALSE>>
    /\ lastQuery.days_back = 0
    /\ lastQuery.limit = 2
    /\ Len(lastQuery.messages) = 2
    /\ Cardinality(ChatMessages) = 3
    /\ Cardinality({m \in ChatMessages : m.date >= lastQuery.now - DaysBack}) = 2

\* ------------------------------------------------------------------------
\* Properties of the cooldown after a request that did no work
\* ------------------------------------------------------------------------
\* a request of the given kind in chat c: an admitted one leaves the entry
\* of the chat at its arrival time whatever it does afterwards, and one that
\* comes inside the window of an admitted request that failed or found no
\* messages is rejected (or told the usage) and leaves the entry as it is
CooldownConsumed(kind, c) ==
    /\ lastReply'.outcome = "admitted" => CooldownEntries(kind, c)' = {clock}
    /\ (/\ lastReply.kind = kind /\ lastReply.chat_id = c
        /\ lastReply.outcome = "admitted"
        /\ lastReply.after \in {"error", "no messages found"}
        /\ clock - lastReply.at < CooldownOf(kind))
       => /\ lastReply'.outcome \in {"rejected", "usage"}
          /\ CooldownEntries(kind, c)' = {lastReply.at}

\* C32: the cooldown is consumed at admission, before any work is done: a
\* request that passes the cooldown check and then fails with an error, or
\* finds no messages, leaves the cooldown entry of the chat at its arrival
\* time, so the next request inside the window is rejected.
C32_CooldownConsumedAtAdmission ==
    [][\A c \in ChatIds :
          /\ (\E rest \in AskRests : CmdAsk(c, rest)) => CooldownConsumed("ask", c)
          /\ CmdSummary(c) => CooldownConsumed("summary", c)]_vars

\* C32 witness: an admitted /summary failed with an error, time has passed
\* that is less than the cooldown, and the entry of the chat still holds the
\* time the request arrived
C32_Witness ==
    /\ lastReply.kind = "summary"
    /\ lastReply.outcome = "admitted"
    /\ lastReply.after = "error"
    /\ clock > lastReply.at
    /\ clock - lastReply.at < SummaryCooldown
    /\ CooldownEntries("summary", lastReply.chat_id) = {lastReply.at}

\* ------------------------------------------------------------------------
\* Properties of the caption save
\* ------------------------------------------------------------------------
\* the handler of the photo of job j has ended, and the photo has a caption
\* and a sender
CaptionHandled(j) ==
    /\ jobs[j].update.caption # NoText
    /\ ~SenderRaises(jobs[j].update)
    /\ ~\E h \in DOMAIN handlers : handlers[h].job = j

\* the "[Image Caption]" record of the photo of job j is stored
CaptionStored(j) ==
    LET u == jobs[j].update
    IN  \E d \in MongoWithKey(messages_collection, u.chat_id, u.message_id) :
            d.text = CaptionText(u.caption)

\* C33: the caption of a photo is saved whether or not the queue accepted
\* the photo's OCR job: once the handler has ended, the key of the photo has
\* a record, and when the enqueue timed out and the job was dropped that
\* record is the "[Image Caption]" one.
C33_CaptionSavedWhenDropped ==
    \A j \in DOMAIN jobs :
        CaptionHandled(j) =>
            /\ MongoHasKey(messages_collection, jobs[j].update.chat_id,
                           jobs[j].update.message_id)
            /\ jobs[j].status = "dropped" => CaptionStored(j)

\* C33 witness: the enqueue of a captioned photo timed out with the queue
\* full, the job was dropped, and its caption is stored
C33_Witness ==
    \E j \in DOMAIN jobs :
        /\ jobs[j].status = "dropped"
        /\ CaptionHandled(j)
        /\ CaptionStored(j)
        /\ QueueFull(ocr_queue)

\* ------------------------------------------------------------------------
\* Properties of semantic search and the reach of the fallback matcher
\* ------------------------------------------------------------------------
\* a semantic search that the backend answered, in a chat that has a
\* stored message, gave a result that is not empty
SemanticNeverEmpty ==
    (/\ lastQuery.op = "vector" /\ lastQuery.failed = <<FALSE>>
     /\ lastQuery.limit >= 1
     /\ ChromaChatCount(lastQuery.chat_id) >= 1)
    => lastQuery.messages # <<>>

\* the last call was one of the orchestrator and ran the fallback matcher
FallbackReached == lastQuery.op = "client" /\ FallbackRuns # {}

\* a stored message of the chat of the last call has a word of its query
TextSearchFinds ==
    \E d \in BagToSet(messages_collection) :
        d.chat_id = lastQuery.chat_id /\ TextMatches(lastQuery.query, d.text)

ReaderInitialisedOnce == reader_inits <= 1

\* no call began an initialisation after one had failed
FailureNeverRetried == \A t \in DOMAIN executor : ~executor[t].retried

\* a finished call that began after a failed initialisation returned None
NoneAfterFailure ==
    \A t \in DOMAIN executor :
        (executor[t].pc = "idle" /\ executor[t].after_failure) => executor[t].result = None

\* C35: the OCR engine is initialised at most once per process, also when
\* the two executor threads call get_reader concurrently on first use; once
\* an initialisation has failed it is never retried and every later
\* extract_text_from_image call returns None.
C35_ReaderInitialisedOnce ==
    /\ ReaderInitialisedOnce
    /\ FailureNeverRetried
    /\ NoneAfterFailure

====
